---- MODULE Spec2Model ----
(***************************************************************************)
(* Client-side live-game synchronisation layer of nakayama-catan:          *)
(*   - GameScreen's bot runner (processBotActions) and the human controls  *)
(*     that submit actions through executePlayerAction;                    *)
(*   - PvpRoomPage's status poll and action executor;                      *)
(*   - the roll reveal sequencer (useRollDisplay).                         *)
(* Every action is one event handler of the UI event loop: the handler's   *)
(* synchronous code up to its next await, followed by the React effects    *)
(* the resulting render runs.                                              *)
(***************************************************************************)
EXTENDS Integers, Sequences, FiniteSets, TLC

\* ---------------------------------------------------------------- bounds
MaxLoops == 2        \* drive loops (run() invocations) pending at once
MaxFetches == 1      \* getState requests in flight per game
MaxHumanPosts == 2   \* human submissions outstanding at once
MaxPolls == 2        \* PvP: fetchStatus calls pending at once
MaxSubmits == 1      \* PvP: submitAction calls pending at once
MaxIndex == 2        \* PvP: highest state_index the server reaches
MaxRecords == 2      \* roll display: longest action_records of a snapshot
MaxCount == 2        \* trade form: most cards of one kind in a hand or a form
MaxHist == 4         \* records page: longest action_records of a loaded record
MaxAdvice == 1       \* records page: most events of a loaded record
MaxReplayIndex == 2  \* replay: highest state_index of the replayed game
MaxReplayFetches == 2 \* replay: getState requests pending at once
MAX_RECORDS == 2     \* localRecords.ts:5 keeps 100 records; scaled down
MaxClock == 3        \* local records: latest value Date.now() returns

Games == {"g1", "g2"}

\* ------------------------------------------------------------- snapshots
\* A GameState as the client reads it.  The fields the modelled code reads
\* are determined by the shape; game and state_index identify the snapshot.
Shapes ==
  [ HUMAN_PLAY |->
      [winning_color |-> "NONE", current_color |-> "RED",
       current_prompt |-> "PLAY_TURN", colors |-> <<"RED", "BLUE">>,
       bot_colors |-> {"BLUE"}, is_initial_build_phase |-> FALSE,
       has_rolled |-> TRUE, offerer_color |-> "NONE", acceptees |-> {}],
    BOT_PLAY |->
      [winning_color |-> "NONE", current_color |-> "BLUE",
       current_prompt |-> "PLAY_TURN", colors |-> <<"RED", "BLUE">>,
       bot_colors |-> {"BLUE"}, is_initial_build_phase |-> FALSE,
       has_rolled |-> TRUE, offerer_color |-> "NONE", acceptees |-> {}],
    BOT_DISCARD |->
      [winning_color |-> "NONE", current_color |-> "BLUE",
       current_prompt |-> "DISCARD", colors |-> <<"RED", "BLUE">>,
       bot_colors |-> {"BLUE"}, is_initial_build_phase |-> FALSE,
       has_rolled |-> TRUE, offerer_color |-> "NONE", acceptees |-> {}],
    HUMAN_TRADE |->
      [winning_color |-> "NONE", current_color |-> "RED",
       current_prompt |-> "DECIDE_TRADE", colors |-> <<"RED", "BLUE">>,
       bot_colors |-> {"BLUE"}, is_initial_build_phase |-> FALSE,
       has_rolled |-> TRUE, offerer_color |-> "RED",
       acceptees |-> {[color |-> "BLUE", accepted |-> FALSE,
                       responded |-> FALSE]}],
    WON |->
      [winning_color |-> "RED", current_color |-> "BLUE",
       current_prompt |-> "PLAY_TURN", colors |-> <<"RED", "BLUE">>,
       bot_colors |-> {"BLUE"}, is_initial_build_phase |-> FALSE,
       has_rolled |-> TRUE, offerer_color |-> "NONE", acceptees |-> {}],
    BOT_ROLL |->
      [winning_color |-> "NONE", current_color |-> "BLUE",
       current_prompt |-> "PLAY_TURN", colors |-> <<"RED", "BLUE">>,
       bot_colors |-> {"BLUE"}, is_initial_build_phase |-> FALSE,
       has_rolled |-> FALSE, offerer_color |-> "NONE", acceptees |-> {}],
    BOT_ROBBER |->
      [winning_color |-> "NONE", current_color |-> "BLUE",
       current_prompt |-> "MOVE_ROBBER", colors |-> <<"RED", "BLUE">>,
       bot_colors |-> {"BLUE"}, is_initial_build_phase |-> FALSE,
       has_rolled |-> TRUE, offerer_color |-> "NONE", acceptees |-> {}],
    BOT_INITIAL |->
      [winning_color |-> "NONE", current_color |-> "BLUE",
       current_prompt |-> "BUILD_INITIAL_SETTLEMENT",
       colors |-> <<"RED", "BLUE">>,
       bot_colors |-> {"BLUE"}, is_initial_build_phase |-> TRUE,
       has_rolled |-> FALSE, offerer_color |-> "NONE", acceptees |-> {}],
    ALLBOT_PLAY |->
      [winning_color |-> "NONE", current_color |-> "BLUE",
       current_prompt |-> "PLAY_TURN", colors |-> <<"RED", "BLUE">>,
       bot_colors |-> {"RED", "BLUE"}, is_initial_build_phase |-> FALSE,
       has_rolled |-> TRUE, offerer_color |-> "NONE", acceptees |-> {}],
    ALLBOT_WON |->
      [winning_color |-> "BLUE", current_color |-> "BLUE",
       current_prompt |-> "PLAY_TURN", colors |-> <<"RED", "BLUE">>,
       bot_colors |-> {"RED", "BLUE"}, is_initial_build_phase |-> FALSE,
       has_rolled |-> TRUE, offerer_color |-> "NONE", acceptees |-> {}] ]

\* The snapshots of a game between the human RED and the bot BLUE at an
\* ordinary point of play.
ShapeNames == {"HUMAN_PLAY", "BOT_PLAY", "BOT_DISCARD", "HUMAN_TRADE", "WON"}

\* Every snapshot, the forced roll, the robber move, the initial placement
\* and the game without a human seat included.
PacingShapeNames == DOMAIN Shapes

NoState == [game |-> "none", state_index |-> 0, shape |-> "NONE"]

Snap(g, n, sh) == [game |-> g, state_index |-> n, shape |-> sh]

Fields(s) == Shapes[s.shape]

\* PvpLobbyPage.tsx:256-263
hasPendingBotTradeResponse(s) ==
  /\ Fields(s).current_prompt = "DECIDE_TRADE"
  /\ \E a \in Fields(s).acceptees :
       a.color \in Fields(s).bot_colors /\ ~a.responded

\* PvpLobbyPage.tsx:264-267
isBotTurn(s) ==
  /\ Fields(s).winning_color = "NONE"
  /\ \/ Fields(s).current_color \in Fields(s).bot_colors
     \/ hasPendingBotTradeResponse(s)

\* PvpLobbyPage.tsx:268-274 (has_human_player is absent from the snapshots
\* modelled here, so the fallback over colors decides)
hasHumanPlayer(s) ==
  IF s = NoState THEN FALSE
  ELSE \E k \in DOMAIN Fields(s).colors :
         Fields(s).colors[k] \notin Fields(s).bot_colors

\* PvpLobbyPage.tsx:217
HUMAN_BOT_DELAY_MS == 4000

\* PvpLobbyPage.tsx:321-325
shouldDelayBeforeAction(hasHuman, s) ==
  /\ hasHuman
  /\ ~Fields(s).is_initial_build_phase
  /\ Fields(s).current_prompt \in {"PLAY_TURN", "MOVE_ROBBER"}

\* ============================================================ GameScreen
VARIABLES
  gameId,         \* useParams().gameId of the mounted GameScreen
  unmounted,      \* isUnmountedRef
  replayMode,     \* the replayMode prop of the mounted GameScreen
  storeState,     \* store's state.gameState
  latestGameStateRef,
  botProcessingRef,
  pendingBotCheckRef,
  botProcessingCancelledRef,
  botDelayTimeoutRef,   \* 0 = null, i = the pending timer of drive loop i
  isBotThinking,
  loops,          \* the pending run() invocations, by slot
  fetches,        \* getState requests in flight, per game
  humanPosts,     \* postAction requests of human controls in flight
  pendingAction,  \* TradePanel's pendingAction ("null" or an action type)
  snackbar,       \* the notification shown last (maxSnack = 1)
  enqueued,       \* enqueueSnackbar calls made by the last handler
  pvpSrv,         \* PvP: the room's game on the server (NoState: not started)
  pvpPolls,       \* PvP: the pending fetchStatus calls, by slot
  pvpSubmits,     \* PvP: the pending submitAction calls, by slot
  pvpToken,       \* PvP: the token state of PvpRoomPage ("none": null)
  pvpSeatColor,   \* PvP: the seatColor state ("none": null)
  joinDialogOpen, \* PvP: the joinDialogOpen state
  pvpTokenValid,  \* PvP: whether the server still accepts the token
  gameState,      \* useRollDisplay: its argument (action_records, current_color)
  displayRoll,    \* useRollDisplay: the settled roll
  displayRollKey,
  overlayRoll,    \* useRollDisplay: the roll being revealed
  overlayKey,
  tradeGameState, \* TradePanel: the snapshot it renders (state.gameState)
  holdings,       \* TradePanel: availableCounts, the viewer's cards in hand
  offer,          \* TradePanel: the form's offered counts
  request,        \* TradePanel: the form's requested counts
  tradeSubmitted, \* TradePanel: the action handed to actionExecutor, or NoAction
  recordState,    \* records page: its gameState state (the loaded record)
  gameEvents,     \* records page: its gameEvents state
  negotiationStats, \* records page: the negotiationStats memo of the last render
  detailLoading,  \* records page: fetchRecord is awaiting its two requests
  stateIndex,     \* ReplayScreen: the stateIndex state
  latestStateIndex, \* ReplayScreen: the latestStateIndex state
  inputValue,     \* ReplayBox: the inputValue state
  replayFetches,  \* ReplayScreen: what each pending getState asked for
  replayStore,    \* ReplayScreen: state_index of state.gameState (-1: null)
  replayLatest,   \* the server's latest state_index of the replayed game
  storedRecords,  \* localStorage: the item under STORAGE_KEY
  lastOperation   \* per game id, the last localRecords call made for it

gsVars == <<gameId, unmounted, replayMode, storeState, latestGameStateRef,
            botProcessingRef, pendingBotCheckRef, botProcessingCancelledRef,
            botDelayTimeoutRef, isBotThinking, loops, fetches, humanPosts,
            pendingAction, snackbar, enqueued>>

pvpVars == <<pvpSrv, pvpPolls, pvpSubmits, pvpToken, pvpSeatColor,
             joinDialogOpen, pvpTokenValid>>

rollVars == <<gameState, displayRoll, displayRollKey, overlayRoll, overlayKey>>

tradeVars == <<tradeGameState, holdings, offer, request, tradeSubmitted>>

statsVars == <<recordState, gameEvents, negotiationStats, detailLoading>>

replayVars == <<stateIndex, latestStateIndex, inputValue, replayFetches,
                replayStore, replayLatest>>

recordVars == <<storedRecords, lastOperation>>

pageVars == <<replayVars, recordVars>>

\* The mutable state a handler of GameScreen works on, as one record.
Cur ==
  [store |-> storeState, latest |-> latestGameStateRef,
   processing |-> botProcessingRef, pending |-> pendingBotCheckRef,
   cancelled |-> botProcessingCancelledRef, timerRef |-> botDelayTimeoutRef,
   thinking |-> isBotThinking, loops |-> loops, unmounted |-> unmounted,
   snack |-> snackbar, enq |-> 0, overflow |-> FALSE,
   replay |-> replayMode]

\* The handler's result is computed once (held) and written back.
Commit(held) ==
  \E r \in {held} :
  /\ storeState' = r.store
  /\ latestGameStateRef' = r.latest
  /\ botProcessingRef' = r.processing
  /\ pendingBotCheckRef' = r.pending
  /\ botProcessingCancelledRef' = r.cancelled
  /\ botDelayTimeoutRef' = r.timerRef
  /\ isBotThinking' = r.thinking
  /\ loops' = r.loops
  /\ unmounted' = r.unmounted
  /\ snackbar' = r.snack
  /\ enqueued' = r.enq
  /\ replayMode' = replayMode

\* A slot holds a run() that awaits its pacing timer ("wait") or the
\* response of its postAction ("post"); a run() that has returned, or whose
\* timer was cleared (its promise is never resolved), leaves the slot free.
\* stale and tornInWait record teardowns the run() has lived through.
FreeLoop ==
  [pc |-> "free", gameId |-> "none", hasHuman |-> FALSE, stale |-> FALSE,
   tornInWait |-> FALSE, ms |-> 0]

LoopLive(l) == l.pc # "free"

\* PvpLobbyPage.tsx:276-283
updateBotThinking(r, value) ==
  IF ~r.unmounted THEN [r EXCEPT !.thinking = value] ELSE r

\* clearTimeout(botDelayTimeoutRef.current); botDelayTimeoutRef.current = null
\* (PvpLobbyPage.tsx:248-251, 352-355, 394-397): the promise of the cleared
\* timer is never resolved.
ClearBotDelay(r) ==
  IF r.timerRef # 0
  THEN [r EXCEPT !.loops[r.timerRef] = FreeLoop, !.timerRef = 0]
  ELSE r

\* dispatch({ type: ACTIONS.SET_GAME_STATE, data }): total overwrite
SetGameState(r, data) ==
  [r EXCEPT !.store = data]

\* PvpLobbyPage.tsx:302-311 and 329-335: wait(ms) sets the pacing timer; with
\* nothing to wait for the loop goes on to its postAction at once (the
\* cancellation flag cannot change in between).
wait(r, i, ms) ==
  IF ms <= 0 \/ r.cancelled
  THEN [r EXCEPT !.loops[i].pc = "post"]
  ELSE [r EXCEPT !.timerRef = i, !.loops[i].pc = "wait", !.loops[i].ms = ms]

RECURSIVE processBotActions(_, _, _), RunLoop(_, _, _), Finally(_, _)

\* Each of the operators below works on the value of the record it is
\* handed (held), computed once.

\* The finally block without botProcessingRef.current = false (line 357).
FinallyKeepsProcessing(held, i) ==
  CHOOSE out \in
    {LET r1 == ClearBotDelay(r)
         r2 == updateBotThinking(r1, FALSE)
         r3 == [r2 EXCEPT !.loops[i] = FreeLoop]
     IN IF ~r3.cancelled /\ r3.pending
        THEN processBotActions([r3 EXCEPT !.pending = FALSE],
                               r.loops[i].gameId, r.loops[i].hasHuman)
        ELSE r3
     : r \in {held}} : TRUE

\* PvpLobbyPage.tsx:351-366, the finally block of run()
Finally(held, i) ==
  CHOOSE out \in
    {LET r1 == ClearBotDelay(r)
           r2 == updateBotThinking(r1, FALSE)
           r3 == [r2 EXCEPT !.processing = FALSE, !.loops[i] = FreeLoop]
       IN IF ~r3.cancelled /\ r3.pending
          THEN processBotActions([r3 EXCEPT !.pending = FALSE],
                                 r.loops[i].gameId, r.loops[i].hasHuman)
          ELSE r3
       : r \in {held}} : TRUE

\* PvpLobbyPage.tsx:316-335, run() from the loop condition to its next await
\* (the pacing timer or the postAction request); nextState is the snapshot
\* the loop holds.
RunLoop(held, i, nextState) ==
  CHOOSE out \in
    {IF nextState # NoState /\ ~r.cancelled /\ isBotTurn(nextState)
       THEN LET delay == shouldDelayBeforeAction(r.loops[i].hasHuman, nextState)
                r1 == updateBotThinking(r, delay)
            IN IF delay
               THEN wait(r1, i, HUMAN_BOT_DELAY_MS)
               ELSE [r1 EXCEPT !.loops[i].pc = "post"]
       ELSE Finally(r, i)
       : r \in {held}} : TRUE

\* PvpLobbyPage.tsx:285-379; gid and hasHuman are the gameId and
\* hasHumanPlayer of the render whose closure is called.
processBotActions(held, gid, hasHuman) ==
  CHOOSE out \in
    {LET startingState == r.latest
       IN IF startingState = NoState \/ r.replay \/ gid = "none" THEN r
          ELSE IF ~isBotTurn(startingState) THEN r
          ELSE IF r.processing THEN [r EXCEPT !.pending = TRUE]
          ELSE LET free == {j \in DOMAIN r.loops : r.loops[j].pc = "free"}
                   i == CHOOSE j \in free : \A m \in free : j <= m
                   l == [FreeLoop EXCEPT !.pc = "run", !.gameId = gid,
                                         !.hasHuman = hasHuman]
                   r1 == [r EXCEPT !.processing = TRUE, !.pending = FALSE,
                                   !.loops[i] = l]
               IN IF free = {} THEN [r EXCEPT !.overflow = TRUE]
                  ELSE RunLoop(r1, i, startingState)
       : r \in {held}} : TRUE

\* The snapshot effect and the runner it calls without their replayMode
\* tests (lines 287 and 383).
SnapshotEffectIgnoresReplay(held, gid) ==
  CHOOSE out \in
    {IF r.unmounted THEN r
       ELSE LET r1 == [r EXCEPT !.latest = r.store, !.replay = FALSE]
            IN IF r1.store = NoState \/ gid = "none"
               THEN updateBotThinking(r1, FALSE)
               ELSE processBotActions(r1, gid, hasHumanPlayer(r1.store))
       : r \in {held}} : TRUE

\* PvpLobbyPage.tsx:381-388, the effect on state.gameState of the render that
\* follows a store update (the component renders only while mounted)
SnapshotEffect(held, gid) ==
  CHOOSE out \in
    {IF r.unmounted THEN r
       ELSE LET r1 == [r EXCEPT !.latest = r.store]
            IN IF r1.store = NoState \/ r1.replay \/ gid = "none"
               THEN updateBotThinking(r1, FALSE)
               ELSE processBotActions(r1, gid, hasHumanPlayer(r1.store))
       : r \in {held}} : TRUE

\* dispatchSnackbar(enqueueSnackbar, closeSnackbar, state)
Notify(r, kind) == [r EXCEPT !.snack = kind, !.enq = @ + 1]

\* stateUtils.getHumanColor (part_008:52-68): the human seat, if any
getHumanColor(s) ==
  LET humans == {k \in DOMAIN Fields(s).colors :
                   Fields(s).colors[k] \notin Fields(s).bot_colors}
  IN IF humans = {} THEN "NONE"
     ELSE Fields(s).colors[CHOOSE k \in humans : \A m \in humans : k <= m]

\* stateUtils.isPlayersTurn without a colour override (part_008:5-21)
isPlayersTurn(s) == Fields(s).current_color \notin Fields(s).bot_colors

\* part_007:1136-1143 (ActionsToolbar in GameScreen: no playerColorOverride,
\* actionsDisabled = false)
botsTurn(s) == Fields(s).current_color \in Fields(s).bot_colors
disableAllActions(s) == botsTurn(s)
canShowPlayButtons(s) == ~replayMode /\ Fields(s).winning_color = "NONE"

\* part_003:145-158 (TradePanel in GameScreen: no playerColorOverride)
tradeHumanColor(s) ==
  LET humans == {k \in DOMAIN Fields(s).colors :
                   Fields(s).colors[k] \notin Fields(s).bot_colors}
  IN IF Cardinality(humans) = 1
     THEN Fields(s).colors[CHOOSE k \in humans : TRUE]
     ELSE Fields(s).current_color

\* part_003:229-235, 373-376, 392-396
canProposeTrade(s) ==
  /\ Fields(s).current_color = tradeHumanColor(s)
  /\ Fields(s).current_prompt = "PLAY_TURN"
  /\ Fields(s).has_rolled
  /\ Fields(s).winning_color = "NONE"
  /\ \/ Fields(s).offerer_color = "NONE"
     \/ Fields(s).offerer_color = tradeHumanColor(s)

\* part_003:412-415
hasWithdrawAction(s) ==
  /\ Fields(s).offerer_color # "NONE"
  /\ Fields(s).offerer_color = tradeHumanColor(s)

\* part_003:302-303, 377-383
canRespondNow(s) ==
  /\ Fields(s).current_prompt = "DECIDE_TRADE"
  /\ Fields(s).offerer_color # tradeHumanColor(s)
  /\ \A a \in Fields(s).acceptees :
       a.color = tradeHumanColor(s) => ~a.responded

\* The action types the trade panel's enabled buttons submit
\* (part_003:406-411, 492-534, 560-608); the form is taken to be valid.
TradeButtons(s, pending) ==
  IF s = NoState \/ pending # "null" THEN {}
  ELSE (IF canProposeTrade(s) THEN {"OFFER_TRADE"} ELSE {})
       \cup (IF hasWithdrawAction(s) THEN {"CANCEL_TRADE"} ELSE {})
       \cup (IF canRespondNow(s) /\ Fields(s).offerer_color # "NONE"
             THEN {"ACCEPT_TRADE", "REJECT_TRADE"} ELSE {})

Paths == {"toolbar", "board", "trade"}

\* A control of the given path can be clicked and submits an action.
ControlEnabled(path) ==
  /\ ~unmounted
  /\ storeState # NoState
  /\ CASE path = "toolbar" ->
            canShowPlayButtons(storeState) /\ ~disableAllActions(storeState)
       [] path = "board" -> ~replayMode /\ isPlayersTurn(storeState)
       [] path = "trade" -> TradeButtons(storeState, pendingAction) # {}

OutstandingHuman ==
  LET n[S \in SUBSET (Paths \X Games)] ==
        IF S = {} THEN 0
        ELSE LET x == CHOOSE y \in S : TRUE IN humanPosts[x] + n[S \ {x}]
  IN n[Paths \X Games]

OutstandingBot == {i \in DOMAIN loops : loops[i].pc = "post"}

\* =========================================================== PvpRoomPage
\* The page holds a session of the room (token) with a seat (seatColor); the
\* room's game, once started, is roomGame.
seatColor == "RED"
roomGame == "g1"

\* The seat the room's status marks is_you for the holder of a token
\* (part_007:169-191 syncSeatColor): "tok" is the token of the seat holder,
\* "spec" the token of a user without a seat.
SeatOf(token) == IF token = "tok" THEN seatColor ELSE "none"

\* part_007:355-358
isMyTurn(s) == s # NoState /\ Fields(s).current_color = seatColor

\* A slot of pvpPolls holds a fetchStatus call (part_007:193-214) awaiting
\* getPvpRoomStatus ("status"), getPvpGameState before the server has read
\* the game ("state") or after it ("reply", snap is the snapshot read).
\* after/path: the submitAction call that awaits this fetchStatus
\* (part_007:338-340) returns the snapshot `after` to the control `path`.
FreePoll ==
  [phase |-> "free", snap |-> NoState, after |-> NoState, path |-> "none",
   token |-> "none"]

\* A slot of pvpSubmits holds a submitAction call (part_007:310-353) awaiting
\* postPvpAction: "sent", or answered by the server with the next snapshot
\* ("ok") or with 409 ("conflict").  closure is the state.gameState of the
\* render whose submitAction was called.
FreeSubmit ==
  [phase |-> "free", closure |-> NoState, snap |-> NoState, path |-> "none",
   token |-> "none"]

\* The page holds the session of a joined seat (part_007:58-103).
SessionInit ==
  /\ pvpToken = "tok"
  /\ pvpSeatColor = seatColor
  /\ joinDialogOpen = FALSE
  /\ pvpTokenValid = TRUE

\* The controls of PvpRoomPage (part_007:543-583): board and toolbar get
\* actionsDisabled = !isMyTurn || isSpectator and playerColorOverride =
\* seatColor (part_007:1136-1143, 1441-1445); the trade panel as in
\* GameScreen.
PvpControlEnabled(path) ==
  /\ storeState # NoState
  /\ CASE path = "toolbar" ->
            /\ canShowPlayButtons(storeState)
            /\ isMyTurn(storeState)
            /\ ~botsTurn(storeState)
       [] path = "board" -> isMyTurn(storeState)
       [] path = "trade" -> TradeButtons(storeState, pendingAction) # {}

\* The control's handler resumes with the GameState its executor returned:
\* part_007:725-727 (toolbar), 1467-1468 (board), part_003:185-191 (trade).
CallerResume(r, path, s) ==
  LET r1 == SetGameState(r, s)
  IN IF path = "board" THEN r1 ELSE Notify(r1, "record")

\* fetchStatus of slot k returns (part_007:199-213); a submitAction that
\* awaited it returns its closure's state.gameState (part_007:340).
PollDone(r, k) ==
  IF pvpPolls[k].after # NoState
  THEN CallerResume(r, pvpPolls[k].path, pvpPolls[k].after)
  ELSE r

PendingAfter(path) == IF path = "trade" THEN "null" ELSE pendingAction

\* ========================================================= useRollDisplay
\* The hook reads action_records and current_color of its argument.  An
\* action record is <<<<color, type>>, value>>; null is NullGame, NoRoll,
\* NoKey.
Colors == {"RED", "BLUE"}
RollValues == {<<1, 2>>, <<3, 4>>}
NoRoll == <<>>
NoKey == <<>>
NullGame == [action_records |-> <<>>, current_color |-> "null"]

ActionRecords ==
  {<<<<c, "ROLL">>, d>> : c \in Colors, d \in RollValues}
    \cup {<<<<"RED", "END_TURN">>, NoRoll>>}

RollSnapshots ==
  {[action_records |-> h, current_color |-> c] :
     h \in UNION {[1..m -> ActionRecords] : m \in 0..MaxRecords},
     c \in Colors}

\* extractLatestRoll with a key of the die values only (no position).
extractLatestRollValueKey(gs) ==
  LET records == gs.action_records
      rolls == {i \in DOMAIN records : records[i][1][2] = "ROLL"}
      last == CHOOSE i \in rolls : \A j \in rolls : j <= i
  IN IF gs = NullGame \/ rolls = {}
     THEN [roll |-> NoRoll, key |-> NoKey, roller |-> "null"]
     ELSE [roll |-> records[last][2],
           key |-> <<records[last][2][1], records[last][2][2], 0>>,
           roller |-> records[last][1][1]]

\* useSoundEffects.ts:93-107; the key is `${roll[0]}-${roll[1]}-${i}` with
\* the record's 0-based position i.
extractLatestRoll(gs) ==
  LET records == gs.action_records
      rolls == {i \in DOMAIN records : records[i][1][2] = "ROLL"}
      last == CHOOSE i \in rolls : \A j \in rolls : j <= i
  IN IF gs = NullGame \/ rolls = {}
     THEN [roll |-> NoRoll, key |-> NoKey, roller |-> "null"]
     ELSE [roll |-> records[last][2],
           key |-> <<records[last][2][1], records[last][2][2], last - 1>>,
           roller |-> records[last][1][1]]

\* The hook's state as one record.
Hook ==
  [displayRoll |-> displayRoll, displayRollKey |-> displayRollKey,
   overlayRoll |-> overlayRoll, overlayKey |-> overlayKey]

HookCleared ==
  [displayRoll |-> NoRoll, displayRollKey |-> NoKey,
   overlayRoll |-> NoRoll, overlayKey |-> NoKey]

CommitHook(h) ==
  /\ displayRoll' = h.displayRoll
  /\ displayRollKey' = h.displayRollKey
  /\ overlayRoll' = h.overlayRoll
  /\ overlayKey' = h.overlayKey

\* RollEffect without the roller test of lines 141-144: every new roll is
\* animated.
RollEffectAlwaysAnimates(gs, h) ==
  LET latest == extractLatestRoll(gs)
  IN IF gs = NullGame THEN HookCleared
     ELSE IF latest.roll = NoRoll \/ latest.key = NoKey THEN HookCleared
     ELSE IF latest.key = h.displayRollKey \/ latest.key = h.overlayKey
     THEN h
     ELSE [h EXCEPT !.overlayRoll = latest.roll, !.overlayKey = latest.key]

\* useSoundEffects.ts:120-156, one run of the effect
RollEffect(gs, h) ==
  LET latest == extractLatestRoll(gs)
  IN IF gs = NullGame THEN HookCleared
     ELSE IF latest.roll = NoRoll \/ latest.key = NoKey THEN HookCleared
     ELSE IF latest.key = h.displayRollKey \/ latest.key = h.overlayKey
     THEN h
     ELSE IF latest.roller = gs.current_color
     THEN [h EXCEPT !.overlayRoll = latest.roll, !.overlayKey = latest.key]
     ELSE [displayRoll |-> latest.roll, displayRollKey |-> latest.key,
           overlayRoll |-> NoRoll, overlayKey |-> NoKey]

\* The effect depends on displayRollKey and overlayKey (line 156): it runs
\* again after a render in which it changed them.
RECURSIVE RunRollEffect(_, _)
RunRollEffect(gs, h) ==
  LET h1 == RollEffect(gs, h)
  IN IF h1 = h THEN h ELSE RunRollEffect(gs, h1)

\* useSoundEffects.ts:167-173
overlayVisible == overlayKey # NoKey /\ overlayRoll # NoRoll

\* No useRollDisplay is followed.
RollIdle ==
  /\ gameState = NullGame
  /\ displayRoll = NoRoll
  /\ displayRollKey = NoKey
  /\ overlayRoll = NoRoll
  /\ overlayKey = NoKey

\* ============================================================ TradePanel
\* The panel is modelled for one viewer over the snapshots it can be given:
\* every combination of actor, prompt, winner, HAS_ROLLED, trade and listed
\* trade actions that satisfies the invariants of a TradeProposal (one
\* acceptee entry per non-offering seat, responded = false implies
\* accepted = false).
Seats == <<"RED", "BLUE", "WHITE", "ORANGE">>

SeatSet == {Seats[i] : i \in DOMAIN Seats}

\* Two of the five kinds of RESOURCE_ORDER are followed.
Resources == {"WOOD", "BRICK"}

Counts == [Resources -> 0..MaxCount]

createEmptyCounts == [k \in Resources |-> 0]

\* The viewer: playerColorOverride (a PvP seat) or the game's single human.
humanColor == "RED"

NoAction == <<"NONE", "NONE", "NONE">>

\* gameState.trade is absent
NoTrade == [offerer_color |-> "NONE", request |-> createEmptyCounts, acceptees |-> {}]

AccepteeStatuses == {"waiting", "accepted", "rejected"}

\* has_responded tells whether the entry carries the optional responded
\* field (part_010:385).
AccepteeEntry(c, st) ==
  [color |-> c, accepted |-> (st = "accepted"), responded |-> (st # "waiting"),
   has_responded |-> TRUE]

\* An entry without the responded field: { color, accepted }.
AccepteeWithoutResponded(c, accepted) ==
  [color |-> c, accepted |-> accepted, responded |-> FALSE,
   has_responded |-> FALSE]

\* The proposals followed ask for one WOOD; RED or BLUE offers.
TradeProposals ==
  {[offerer_color |-> o,
    request |-> [k \in Resources |-> IF k = "WOOD" THEN 1 ELSE 0],
    acceptees |-> {AccepteeEntry(c, f[c]) : c \in SeatSet \ {o}}] :
     o \in {"RED", "BLUE"}, f \in [SeatSet -> AccepteeStatuses]}

\* Proposals as any server of the game may send them: a seat may be missing
\* from acceptees ("missing"), and an entry may lack the responded field
\* ("acceptedOnly": { color, accepted: true }, "pendingOnly": { color,
\* accepted: false }).
AccepteeKinds == AccepteeStatuses \cup {"missing", "acceptedOnly", "pendingOnly"}

ViewProposals ==
  {[offerer_color |-> o,
    request |-> [k \in Resources |-> IF k = "WOOD" THEN 1 ELSE 0],
    acceptees |->
      {IF f[c] \in AccepteeStatuses THEN AccepteeEntry(c, f[c])
       ELSE AccepteeWithoutResponded(c, f[c] = "acceptedOnly") :
         c \in {x \in SeatSet \ {o} : f[x] # "missing"}}] :
     o \in {"RED", "BLUE"}, f \in [SeatSet -> AccepteeKinds]}

\* current_playable_actions, as far as the panel reads it: the viewer's
\* ACCEPT_TRADE and REJECT_TRADE, and the actor's CONFIRM_TRADE per target.
PlayableSets(actor) ==
  {resp \cup {<<actor, "CONFIRM_TRADE", t>> : t \in T} :
     resp \in {{}, {<<humanColor, "ACCEPT_TRADE", "NONE">>,
                    <<humanColor, "REJECT_TRADE", "NONE">>}},
     T \in SUBSET (SeatSet \ {humanColor})}

TradeSnapshots ==
  UNION {{[current_color |-> c, current_prompt |-> p, winning_color |-> w,
           has_rolled |-> r, trade |-> t, current_playable_actions |-> pl] :
            pl \in PlayableSets(c)} :
     c \in {"RED", "BLUE"},
     p \in {"PLAY_TURN", "DECIDE_TRADE", "DECIDE_ACCEPTEES"},
     w \in {"NONE", "BLUE"}, r \in BOOLEAN,
     t \in TradeProposals \cup {NoTrade}}

\* part_003:229-235
hasRolled == tradeGameState.has_rolled

panelIsPlayersTurn ==
  /\ tradeGameState.current_color = humanColor
  /\ tradeGameState.current_prompt = "PLAY_TURN"

tradeActive == tradeGameState.trade # NoTrade

gameFinished == tradeGameState.winning_color # "NONE"

RECURSIVE SumCounts(_, _)
SumCounts(c, S) ==
  IF S = {} THEN 0
  ELSE LET k == CHOOSE x \in S : TRUE IN c[k] + SumCounts(c, S \ {k})

offerTotal == SumCounts(offer, Resources)

requestTotal == SumCounts(request, Resources)

\* part_003:240-256: the message of the first rule that fails, "null" if none
validationError ==
  IF \E k \in Resources : offer[k] > holdings[k] THEN "insufficient"
  ELSE IF \E k \in Resources : offer[k] > 0 /\ request[k] > 0 THEN "overlap"
  ELSE IF offerTotal = 0 THEN "emptyOffer"
  ELSE IF requestTotal = 0 THEN "emptyRequest"
  ELSE "null"

awaitingResponse == tradeGameState.current_prompt = "DECIDE_TRADE"

decidingPartner ==
  /\ tradeGameState.current_prompt = "DECIDE_ACCEPTEES"
  /\ tradeGameState.current_color = humanColor

\* part_003:308-317: the listed action of the viewer, as a set (empty: undefined)
acceptAction ==
  IF awaitingResponse
  THEN {a \in tradeGameState.current_playable_actions :
          a[2] = "ACCEPT_TRADE" /\ a[1] = humanColor}
  ELSE {}

rejectAction ==
  IF awaitingResponse
  THEN {a \in tradeGameState.current_playable_actions :
          a[2] = "REJECT_TRADE" /\ a[1] = humanColor}
  ELSE {}

confirmActions ==
  IF decidingPartner
  THEN {a \in tradeGameState.current_playable_actions : a[2] = "CONFIRM_TRADE"}
  ELSE {}

tradeVector == tradeActive /\ tradeGameState.trade.offerer_color \in SeatSet

canAffordRequest ==
  /\ tradeActive
  /\ \A k \in Resources : tradeGameState.trade.request[k] <= holdings[k]

tradeParticipantColors ==
  IF tradeActive THEN SeatSet \ {tradeGameState.trade.offerer_color} ELSE {}

\* part_003:350-369: one entry per participant, absent entries count as
\* not accepted and not responded
displayAcceptees ==
  LET raw == tradeGameState.trade.acceptees
      normalizedAcceptees ==
        IF tradeParticipantColors = {} THEN raw
        ELSE {IF \E e \in raw : e.color = c
              THEN LET match == CHOOSE e \in raw : e.color = c
                   IN [color |-> c, accepted |-> match.accepted,
                       responded |-> match.has_responded /\ match.responded,
                       has_responded |-> TRUE]
              ELSE [color |-> c, accepted |-> FALSE, responded |-> FALSE,
                    has_responded |-> TRUE] : c \in tradeParticipantColors}
  IN IF Cardinality(normalizedAcceptees) < Cardinality(raw)
     THEN normalizedAcceptees \cup
            {e \in raw : ~\E item \in normalizedAcceptees :
                              item.color = e.color}
     ELSE normalizedAcceptees

isTradeOfferer ==
  tradeActive /\ tradeGameState.trade.offerer_color = humanColor

responderStatus == {e \in displayAcceptees : e.color = humanColor}

panelCanRespondNowAnyEntry ==
  awaitingResponse /\ ~isTradeOfferer

panelCanRespondNow ==
  IF awaitingResponse /\ ~isTradeOfferer
  THEN \A e \in responderStatus : ~e.responded
  ELSE FALSE

fallbackAcceptAction ==
  IF panelCanRespondNow /\ tradeVector /\ canAffordRequest
  THEN {<<humanColor, "ACCEPT_TRADE", "NONE">>} ELSE {}

fallbackRejectAction ==
  IF panelCanRespondNow /\ tradeVector
  THEN {<<humanColor, "REJECT_TRADE", "NONE">>} ELSE {}

panelCanProposeTradeAnyRoll ==
  /\ panelIsPlayersTurn
  /\ ~gameFinished
  /\ (~tradeActive \/ isTradeOfferer)

panelCanProposeTrade ==
  /\ panelIsPlayersTurn
  /\ hasRolled
  /\ ~gameFinished
  /\ (~tradeActive \/ isTradeOfferer)

canSubmitProposalUnvalidated ==
  /\ panelCanProposeTrade
  /\ pendingAction = "null"

canSubmitProposal ==
  /\ panelCanProposeTrade
  /\ validationError = "null"
  /\ pendingAction = "null"
  /\ offerTotal > 0
  /\ requestTotal > 0

withdrawAction ==
  IF tradeActive /\ isTradeOfferer
  THEN {<<humanColor, "CANCEL_TRADE", "NONE">>} ELSE {}

acceptedColors == {e.color : e \in {x \in displayAcceptees : x.accepted}}

hasAcceptedPartners == acceptedColors # {}

rejectedColors ==
  {e.color : e \in {x \in displayAcceptees : x.responded /\ ~x.accepted}}

waitingColors == {e.color : e \in {x \in displayAcceptees : ~x.responded}}

hasRejectedPlayers == rejectedColors # {}

mustCancelDueToRejections ==
  hasRejectedPlayers /\ waitingColors = {} /\ ~hasAcceptedPartners

\* part_003:492-534: the response buttons that are rendered and enabled, by
\* the action their onClick submits
ResponseButtons ==
  IF /\ panelCanRespondNow
     /\ acceptAction \cup rejectAction \cup fallbackAcceptAction
            \cup fallbackRejectAction # {}
     /\ pendingAction = "null"
  THEN (IF acceptAction # {} THEN acceptAction ELSE fallbackAcceptAction)
       \cup (IF rejectAction # {} THEN rejectAction ELSE fallbackRejectAction)
  ELSE {}

\* part_003:536-559
ConfirmButtonsAnyPartner ==
  IF pendingAction = "null" THEN confirmActions ELSE {}

ConfirmButtons ==
  IF pendingAction = "null" /\ hasAcceptedPartners THEN confirmActions ELSE {}

\* part_003:560-569, 580-608
WithdrawButtons ==
  IF pendingAction = "null" THEN withdrawAction ELSE {}

\* part_003:289-301, 674-681
ProposeButton ==
  IF canSubmitProposal
  THEN {<<humanColor, "OFFER_TRADE", <<offer, request>>>>} ELSE {}

\* Every action a click on the panel submits in the current render.
EnabledTradeActions ==
  ResponseButtons \cup ConfirmButtons \cup WithdrawButtons \cup ProposeButton

\* The snapshot the server answers an accepted trade action with
\* (propose -> respond -> confirm or cancel).
TradeAnswer(s, a) ==
  IF a[2] = "OFFER_TRADE"
  THEN [s EXCEPT !.trade = [offerer_color |-> a[1], request |-> a[3][2],
                            acceptees |-> {AccepteeEntry(c, "waiting") :
                                             c \in SeatSet \ {a[1]}}],
                 !.current_prompt = "DECIDE_TRADE",
                 !.current_color = CHOOSE c \in SeatSet : c # a[1],
                 !.current_playable_actions = {}]
  ELSE IF a[2] \in {"ACCEPT_TRADE", "REJECT_TRADE"}
  THEN [s EXCEPT !.trade.acceptees =
                   {IF e.color = a[1]
                    THEN AccepteeEntry(a[1], IF a[2] = "ACCEPT_TRADE"
                                             THEN "accepted" ELSE "rejected")
                    ELSE e : e \in @},
                 !.current_playable_actions = {}]
  ELSE [s EXCEPT !.trade = NoTrade, !.current_prompt = "PLAY_TURN",
                 !.current_color = a[1], !.current_playable_actions = {}]

\* The panel without the effect of lines 170-176: the offer is kept.
ClampOfferKeeps(o, h) == o

\* part_003:170-176: the effect that follows a change of availableCounts
ClampOffer(o, h) == [k \in Resources |-> IF o[k] < h[k] THEN o[k] ELSE h[k]]

\* No TradePanel is followed.
TradeIdle ==
  /\ tradeGameState = NoState
  /\ holdings = createEmptyCounts
  /\ offer = createEmptyCounts
  /\ request = createEmptyCounts
  /\ tradeSubmitted = NoAction

\* ========================================================== records page
\* The records page loads the latest snapshot and the events of the selected
\* game and shows calculateNegotiationStats of them.
StatsColors == <<"RED", "BLUE", "WHITE">>

\* number | null
NullTs == -1

\* negotiationStats.test.ts:28-33: a GameActionRecord is [action, result]
\* and its action [color, type, value]
record(color, type) == <<(<<color, type, "null">>), "null">>

\* negotiationStats.ts:34-36
extractAction(actionRecord) == actionRecord[1]

\* The records of a trade negotiation around the seat RED.
StatsRecords ==
  {record("RED", t) :
     t \in {"OFFER_TRADE", "CONFIRM_TRADE", "CANCEL_TRADE", "END_TURN"}}
  \cup {record("BLUE", t) :
          t \in {"ACCEPT_TRADE", "REJECT_TRADE", "CONFIRM_TRADE"}}
  \cup {record("WHITE", "REJECT_TRADE")}

\* A seat answers an offer once: between two answers of one seat there is
\* an OFFER_TRADE.
answersOnce(h) ==
  \A i, j \in 1..Len(h) :
    (/\ i < j
     /\ extractAction(h[i])[1] = extractAction(h[j])[1]
     /\ extractAction(h[i])[2] \in {"ACCEPT_TRADE", "REJECT_TRADE"}
     /\ extractAction(h[j])[2] \in {"ACCEPT_TRADE", "REJECT_TRADE"})
      => \E k \in (i + 1)..(j - 1) : extractAction(h[k])[2] = "OFFER_TRADE"

\* The records that decide whether an advice request was followed.
AdviceRecords ==
  {record(c, t) : c \in {"RED", "BLUE"}, t \in {"OFFER_TRADE", "END_TURN"}}

\* The server's clock readings for n records: evenly spaced, or with gaps
\* that grow.
StampLists(n) == {[k \in 1..n |-> k], [k \in 1..n |-> k * k]}

\* action_timestamps of a history of n records: one reading per record, the
\* last one missing, or none at all (the field is optional, part_010:344,
\* and read as action_timestamps ?? [], negotiationStats.ts:51).
StampChoices(n) ==
  StampLists(n) \cup (IF n > 0 THEN StampLists(n - 1) ELSE {}) \cup {<<>>}

NoRecord ==
  [action_records |-> <<>>, action_timestamps |-> <<>>, colors |-> <<>>,
   bot_colors |-> {}]

\* The record of a game of the human RED against two bots.
StatsSnapshot(h, ts) ==
  [action_records |-> h, action_timestamps |-> ts, colors |-> StatsColors,
   bot_colors |-> {"BLUE", "WHITE"}]

\* The record of a game with the bots b, without timestamps.
AdviceSnapshot(h, b) ==
  [action_records |-> h, action_timestamps |-> <<>>, colors |-> StatsColors,
   bot_colors |-> b]

NEGOTIATION_ADVICE_EVENT == "NEGOTIATION_ADVICE_REQUEST"

\* apiClient.ts:94-101: a GameEvent; has_index is typeof state_index ===
\* "number", requester_color "none" a payload without a string
\* requester_color.
GameEvent(type, hasIndex, index, requester) ==
  [event_type |-> type, has_index |-> hasIndex, state_index |-> index,
   requester_color |-> requester]

GameEvents(maxLen) ==
  {GameEvent(NEGOTIATION_ADVICE_EVENT, TRUE, n, c) :
     n \in (0 - 1)..maxLen, c \in {"RED", "none"}}
  \cup {GameEvent(NEGOTIATION_ADVICE_EVENT, FALSE, 0, c) : c \in {"RED", "none"}}
  \cup {GameEvent("GAME_CREATED", FALSE, 0, "none")}

\* The event lists getGameEvents returns, up to the order of the events
\* (the stats only filter and count them): one list per choice of how many
\* events of each kind there are.
EventRank(e) ==
  (IF e.event_type = NEGOTIATION_ADVICE_EVENT THEN 0 ELSE 100)
  + (IF e.has_index THEN e.state_index + 2 ELSE 0) * 2
  + (IF e.requester_color = "RED" THEN 1 ELSE 0)

EventLists(maxLen, maxEvents) ==
  {ev \in UNION {[1..n -> GameEvents(maxLen)] : n \in 0..maxEvents} :
     \A k \in 1..(Len(ev) - 1) : EventRank(ev[k]) <= EventRank(ev[k + 1])}

\* negotiationStats.ts:29-32
resolveAttemptAlwaysFails(attempt, success, timestamp) ==
  [attempt EXCEPT !.success = "false", !.endTimestamp = timestamp]

resolveAttempt(attempt, success, timestamp) ==
  [attempt EXCEPT !.success = success, !.endTimestamp = timestamp]

\* negotiationStats.ts:38-43
clampStateIndex(index, total) ==
  IF index < 0 THEN 0
  ELSE IF index < total THEN index ELSE total

\* negotiationStats.ts:51-54
timestampsAvailable(gs) ==
  Len(gs.action_timestamps) = Len(gs.action_records)

\* negotiationStats.ts:58
opponentCount(gs) ==
  IF Len(gs.colors) - 1 > 0 THEN Len(gs.colors) - 1 ELSE 0

\* negotiationStats.ts:60-103, the callback of forEach for the record at
\* index (counted from 0); st holds attempts and activeAttempt, the latter
\* as a position in attempts (0: null).
visitRecord(gs, playerColor, index, st) ==
  LET action == extractAction(gs.action_records[index + 1])
      color == action[1]
      actionType == action[2]
      timestamp == IF timestampsAvailable(gs)
                   THEN gs.action_timestamps[index + 1] ELSE NullTs
      a == st.activeAttempt
  IN IF actionType = "OFFER_TRADE" /\ color = playerColor
     THEN LET closed ==
                IF a # 0 /\ st.attempts[a].success = "null"
                THEN [st.attempts EXCEPT
                        ![a] = resolveAttempt(@, "false", timestamp)]
                ELSE st.attempts
              fresh == [offerIndex |-> index, startTimestamp |-> timestamp,
                        endTimestamp |-> NullTs, success |-> "null",
                        rejectsNeeded |-> opponentCount(gs), rejects |-> 0,
                        hasAcceptance |-> FALSE]
          IN [attempts |-> Append(closed, fresh),
              activeAttempt |-> Len(closed) + 1]
     ELSE IF a = 0 THEN st
     ELSE IF actionType = "ACCEPT_TRADE" /\ color # playerColor
     THEN [st EXCEPT !.attempts[a].hasAcceptance = TRUE]
     ELSE IF actionType = "REJECT_TRADE" /\ color # playerColor
     THEN LET counted == [st.attempts EXCEPT ![a].rejects = @ + 1]
          IN IF /\ ~counted[a].hasAcceptance
                /\ counted[a].rejects >= counted[a].rejectsNeeded
             THEN [attempts |-> [counted EXCEPT
                                   ![a] = resolveAttempt(@, "false", timestamp)],
                   activeAttempt |-> 0]
             ELSE [st EXCEPT !.attempts = counted]
     ELSE IF actionType = "CONFIRM_TRADE" /\ color = playerColor
     THEN [attempts |-> [st.attempts EXCEPT
                           ![a] = resolveAttempt(@, "true", timestamp)],
           activeAttempt |-> 0]
     ELSE IF actionType = "CANCEL_TRADE" /\ color = playerColor
     THEN [attempts |-> [st.attempts EXCEPT
                           ![a] = resolveAttempt(@, "false", timestamp)],
           activeAttempt |-> 0]
     ELSE st

RECURSIVE forEachRecord(_, _, _, _)
\* gameState.action_records.forEach(...), from index on; next is the state
\* the callback leaves, computed once
forEachRecord(gs, playerColor, index, st) ==
  IF index >= Len(gs.action_records) THEN st
  ELSE CHOOSE done \in
         {forEachRecord(gs, playerColor, index + 1, next) :
            next \in {visitRecord(gs, playerColor, index, st)}} : TRUE

\* negotiationStats.ts:55-103: attempts after the forEach
tradeAttempts(gs, playerColor) ==
  forEachRecord(gs, playerColor, 0,
                [attempts |-> <<>>, activeAttempt |-> 0]).attempts

\* negotiationStats.ts:110-121
hasDurationWhenSucceeded(attempt) ==
  /\ attempt.success = "true"
  /\ attempt.startTimestamp # NullTs
  /\ attempt.endTimestamp # NullTs
  /\ attempt.endTimestamp >= attempt.startTimestamp

hasDuration(attempt) ==
  /\ attempt.startTimestamp # NullTs
  /\ attempt.endTimestamp # NullTs
  /\ attempt.endTimestamp >= attempt.startTimestamp

RECURSIVE sumDurations(_, _)
\* resolvedDurations.reduce((sum, duration) => sum + duration, 0)
sumDurations(attempts, k) ==
  IF k > Len(attempts) THEN 0
  ELSE (IF hasDuration(attempts[k])
        THEN attempts[k].endTimestamp - attempts[k].startTimestamp ELSE 0)
       + sumDurations(attempts, k + 1)

\* negotiationStats.ts:136-143
adviceIsFor(event, playerColor, fallbackAdviceColor) ==
  IF event.requester_color # "none"
  THEN event.requester_color = playerColor
  ELSE fallbackAdviceColor = playerColor

\* negotiationStats.ts:145-168, the filter callback of adviceFollowUps
adviceFollowedUpToEnd(gs, playerColor, event) ==
  LET n == Len(gs.action_records)
      targetStartIndex ==
        clampStateIndex(IF event.has_index THEN event.state_index ELSE n, n)
  IN /\ n # 0
     /\ \E i \in targetStartIndex..(n - 1) :
          LET action == extractAction(gs.action_records[i + 1])
          IN action[1] = playerColor /\ action[2] = "OFFER_TRADE"

adviceFollowedUp(gs, playerColor, event) ==
  LET n == Len(gs.action_records)
      targetStartIndex ==
        clampStateIndex(IF event.has_index THEN event.state_index ELSE n, n)
      ends == {i \in targetStartIndex..(n - 1) :
                 LET action == extractAction(gs.action_records[i + 1])
                 IN action[1] = playerColor /\ action[2] = "END_TURN"}
      turnEndIndex ==
        IF ends = {} THEN n ELSE CHOOSE i \in ends : \A j \in ends : i <= j
  IN /\ n # 0
     /\ \E i \in targetStartIndex..(turnEndIndex - 1) :
          LET action == extractAction(gs.action_records[i + 1])
          IN action[1] = playerColor /\ action[2] = "OFFER_TRADE"

\* negotiationStats.ts:105-193.  A rate is the pair <<numerator, denominator>>,
\* <<0, 0>> standing for null.
statsOfAttempts(gs, events, playerColor, fallbackAdviceColor, attempts) ==
  LET offerCount == Len(attempts)
      successCount ==
        Cardinality({k \in 1..Len(attempts) : attempts[k].success = "true"})
      resolved == {k \in 1..Len(attempts) : hasDuration(attempts[k])}
      totalDurationMs ==
        IF resolved # {} THEN sumDurations(attempts, 1) ELSE NullTs
      isAdvice(e) == e.event_type = NEGOTIATION_ADVICE_EVENT
      adviceEvents == SelectSeq(events, isAdvice)
      isMine(e) == adviceIsFor(e, playerColor, fallbackAdviceColor)
      filteredAdvice == SelectSeq(adviceEvents, isMine)
      followed(e) == adviceFollowedUp(gs, playerColor, e)
      adviceFollowUps == SelectSeq(filteredAdvice, followed)
  IN [playerColor |-> playerColor,
      offerCount |-> offerCount,
      successCount |-> successCount,
      successRate |-> IF offerCount > 0 THEN <<successCount, offerCount>>
                      ELSE <<0, 0>>,
      totalDurationMs |-> totalDurationMs,
      averageDurationMs |->
        IF resolved # {} /\ totalDurationMs # NullTs
        THEN <<totalDurationMs, Cardinality(resolved)>> ELSE <<0, 0>>,
      adviceRequestCount |-> Len(filteredAdvice),
      adviceLedToOfferCount |-> Len(adviceFollowUps),
      adviceFollowRate |->
        IF Len(filteredAdvice) > 0
        THEN <<Len(adviceFollowUps), Len(filteredAdvice)>> ELSE <<0, 0>>,
      timestampsAvailable |-> timestampsAvailable(gs)]

\* negotiationStats.ts:45-193: the attempts are collected once and the stats
\* are read off them.
calculateStatsForPlayer(gs, events, playerColor, fallbackAdviceColor) ==
  CHOOSE stats \in
    {statsOfAttempts(gs, events, playerColor, fallbackAdviceColor, attempts) :
       attempts \in {tradeAttempts(gs, playerColor)}} : TRUE

\* negotiationStats.ts:195-209
calculateNegotiationStats(gs, events) ==
  IF Len(gs.colors) = 0 THEN <<>>
  ELSE LET humanColors ==
             {k \in 1..Len(gs.colors) : gs.colors[k] \notin gs.bot_colors}
           fallbackAdviceColor ==
             IF Cardinality(humanColors) = 1
             THEN gs.colors[CHOOSE k \in humanColors : TRUE] ELSE "null"
       IN [k \in 1..Len(gs.colors) |->
             calculateStatsForPlayer(gs, events, gs.colors[k],
                                     fallbackAdviceColor)]

\* part_007:1868-1873, the negotiationStats memo
statsMemo(gs, events) ==
  IF gs = NoRecord THEN <<>> ELSE calculateNegotiationStats(gs, events)

\* The records page is not mounted.
StatsIdle ==
  /\ recordState = NoRecord
  /\ gameEvents = <<>>
  /\ negotiationStats = <<>>
  /\ detailLoading = FALSE

\* ---------------------------------------------------------- replay screen
\* A pending getState of ReplayScreen asks for "latest" or for a state index;
\* "free" is a slot with no request.
NoSnapshot == 0 - 1

\* ReplayScreen is not mounted.
ReplayIdle ==
  /\ stateIndex = 0
  /\ latestStateIndex = 0
  /\ inputValue = "0"
  /\ replayFetches = [k \in 1..MaxReplayFetches |-> "free"]
  /\ replayStore = NoSnapshot
  /\ replayLatest = 0

\* ---------------------------------------------------------- local records
\* The game ids records are kept for, named by number; two more than
\* MAX_RECORDS, so that the list can overflow beside a removed game.
RecordGames == 1..(MAX_RECORDS + 2)

\* localStorage.getItem(STORAGE_KEY): null until persist has written.
NoItem == [present |-> FALSE, value |-> <<>>]

\* Nothing has been stored and no localRecords call has been made.
RecordsIdle ==
  /\ storedRecords = NoItem
  /\ lastOperation = [g \in RecordGames |-> "none"]

\* ------------------------------------------------------------------ Init
GsInit ==
  /\ gameId = "g1"
  /\ unmounted = FALSE
  /\ replayMode = FALSE
  /\ storeState = NoState
  /\ latestGameStateRef = NoState
  /\ botProcessingRef = FALSE
  /\ pendingBotCheckRef = FALSE
  /\ botProcessingCancelledRef = FALSE
  /\ botDelayTimeoutRef = 0
  /\ isBotThinking = FALSE
  /\ loops = [i \in 1..MaxLoops |-> FreeLoop]
  /\ fetches = [g \in Games |-> IF g = "g1" THEN 1 ELSE 0]
  /\ humanPosts = [x \in Paths \X Games |-> 0]
  /\ pendingAction = "null"
  /\ snackbar = "none"
  /\ enqueued = 0
  /\ pvpSrv = NoState
  /\ pvpPolls = [k \in 1..MaxPolls |-> FreePoll]
  /\ pvpSubmits = [k \in 1..MaxSubmits |-> FreeSubmit]
  /\ SessionInit
  /\ RollIdle
  /\ TradeIdle
  /\ StatsIdle
  /\ ReplayIdle
  /\ RecordsIdle

\* GameScreen mounted by either of its routes (configuration.ts:68-76):
\* /games/:gameId/states/:stateIndex gives replayMode = true, /games/:gameId
\* gives false; the load effect has called getState.
ReplayInit ==
  /\ gameId = "g1"
  /\ unmounted = FALSE
  /\ replayMode \in BOOLEAN
  /\ storeState = NoState
  /\ latestGameStateRef = NoState
  /\ botProcessingRef = FALSE
  /\ pendingBotCheckRef = FALSE
  /\ botProcessingCancelledRef = FALSE
  /\ botDelayTimeoutRef = 0
  /\ isBotThinking = FALSE
  /\ loops = [i \in 1..MaxLoops |-> FreeLoop]
  /\ fetches = [g \in Games |-> IF g = "g1" THEN 1 ELSE 0]
  /\ humanPosts = [x \in Paths \X Games |-> 0]
  /\ pendingAction = "null"
  /\ snackbar = "none"
  /\ enqueued = 0
  /\ pvpSrv = NoState
  /\ pvpPolls = [k \in 1..MaxPolls |-> FreePoll]
  /\ pvpSubmits = [k \in 1..MaxSubmits |-> FreeSubmit]
  /\ SessionInit
  /\ RollIdle
  /\ TradeIdle
  /\ StatsIdle
  /\ ReplayIdle
  /\ RecordsIdle

\* PvpRoomPage mounted with a session: the poll effect has called fetchStatus
\* (part_007:216-220); no GameScreen is mounted.
PvpInit ==
  /\ gameId = "none"
  /\ unmounted = FALSE
  /\ replayMode = FALSE
  /\ storeState = NoState
  /\ latestGameStateRef = NoState
  /\ botProcessingRef = FALSE
  /\ pendingBotCheckRef = FALSE
  /\ botProcessingCancelledRef = FALSE
  /\ botDelayTimeoutRef = 0
  /\ isBotThinking = FALSE
  /\ loops = [i \in 1..MaxLoops |-> FreeLoop]
  /\ fetches = [g \in Games |-> 0]
  /\ humanPosts = [x \in Paths \X Games |-> 0]
  /\ pendingAction = "null"
  /\ snackbar = "none"
  /\ enqueued = 0
  /\ pvpSrv = NoState
  /\ pvpPolls = [k \in 1..MaxPolls |->
                   IF k = 1 THEN [FreePoll EXCEPT !.phase = "status",
                                                  !.token = "tok"]
                   ELSE FreePoll]
  /\ pvpSubmits = [k \in 1..MaxSubmits |-> FreeSubmit]
  /\ SessionInit
  /\ RollIdle
  /\ TradeIdle
  /\ StatsIdle
  /\ ReplayIdle
  /\ RecordsIdle

\* PvpRoomPage mounted with the session of the seat holder or with the
\* session of a user who holds a token of the room and no seat (seatColor
\* starts from localStorage, part_007:96-103).
SpectatorInit ==
  /\ pvpToken \in {"tok", "spec"}
  /\ pvpSeatColor = SeatOf(pvpToken)
  /\ joinDialogOpen = FALSE
  /\ pvpTokenValid = TRUE
  /\ gameId = "none"
  /\ unmounted = FALSE
  /\ replayMode = FALSE
  /\ storeState = NoState
  /\ latestGameStateRef = NoState
  /\ botProcessingRef = FALSE
  /\ pendingBotCheckRef = FALSE
  /\ botProcessingCancelledRef = FALSE
  /\ botDelayTimeoutRef = 0
  /\ isBotThinking = FALSE
  /\ loops = [i \in 1..MaxLoops |-> FreeLoop]
  /\ fetches = [g \in Games |-> 0]
  /\ humanPosts = [x \in Paths \X Games |-> 0]
  /\ pendingAction = "null"
  /\ snackbar = "none"
  /\ enqueued = 0
  /\ pvpSrv = NoState
  /\ pvpPolls = [k \in 1..MaxPolls |->
                   IF k = 1 THEN [FreePoll EXCEPT !.phase = "status",
                                                  !.token = pvpToken]
                   ELSE FreePoll]
  /\ pvpSubmits = [k \in 1..MaxSubmits |-> FreeSubmit]
  /\ RollIdle
  /\ TradeIdle
  /\ StatsIdle
  /\ ReplayIdle
  /\ RecordsIdle

\* A page that uses useRollDisplay mounts on the snapshot the store holds
\* (useSoundEffects.ts:109-118, then the first run of the effect).
RollInit ==
  /\ gameId = "none"
  /\ unmounted = FALSE
  /\ replayMode = FALSE
  /\ storeState = NoState
  /\ latestGameStateRef = NoState
  /\ botProcessingRef = FALSE
  /\ pendingBotCheckRef = FALSE
  /\ botProcessingCancelledRef = FALSE
  /\ botDelayTimeoutRef = 0
  /\ isBotThinking = FALSE
  /\ loops = [i \in 1..MaxLoops |-> FreeLoop]
  /\ fetches = [g \in Games |-> 0]
  /\ humanPosts = [x \in Paths \X Games |-> 0]
  /\ pendingAction = "null"
  /\ snackbar = "none"
  /\ enqueued = 0
  /\ pvpSrv = NoState
  /\ pvpPolls = [k \in 1..MaxPolls |-> FreePoll]
  /\ pvpSubmits = [k \in 1..MaxSubmits |-> FreeSubmit]
  /\ SessionInit
  /\ gameState \in RollSnapshots \cup {NullGame}
  /\ LET latest == extractLatestRoll(gameState)
         h == RunRollEffect(gameState,
                [displayRoll |-> latest.roll, displayRollKey |-> latest.key,
                 overlayRoll |-> NoRoll, overlayKey |-> NoKey])
     IN /\ displayRoll = h.displayRoll
        /\ displayRollKey = h.displayRollKey
        /\ overlayRoll = h.overlayRoll
        /\ overlayKey = h.overlayKey
  /\ TradeIdle
  /\ StatsIdle
  /\ ReplayIdle
  /\ RecordsIdle

\* A TradePanel rendered on an arbitrary snapshot, with nothing in the hand
\* or MaxCount of each kind, and an empty form or a valid one.
TradeInit ==
  /\ gameId = "none"
  /\ unmounted = FALSE
  /\ replayMode = FALSE
  /\ storeState = NoState
  /\ latestGameStateRef = NoState
  /\ botProcessingRef = FALSE
  /\ pendingBotCheckRef = FALSE
  /\ botProcessingCancelledRef = FALSE
  /\ botDelayTimeoutRef = 0
  /\ isBotThinking = FALSE
  /\ loops = [i \in 1..MaxLoops |-> FreeLoop]
  /\ fetches = [g \in Games |-> 0]
  /\ humanPosts = [x \in Paths \X Games |-> 0]
  /\ pendingAction = "null"
  /\ snackbar = "none"
  /\ enqueued = 0
  /\ pvpSrv = NoState
  /\ pvpPolls = [k \in 1..MaxPolls |-> FreePoll]
  /\ pvpSubmits = [k \in 1..MaxSubmits |-> FreeSubmit]
  /\ SessionInit
  /\ RollIdle
  /\ StatsIdle
  /\ ReplayIdle
  /\ RecordsIdle
  /\ tradeGameState \in TradeSnapshots
  /\ holdings \in {createEmptyCounts, [k \in Resources |-> MaxCount]}
  /\ request \in {createEmptyCounts,
                  [k \in Resources |-> IF k = "WOOD" THEN 1 ELSE 0]}
  /\ offer = [k \in Resources |->
                IF k = "BRICK" /\ request # createEmptyCounts
                THEN holdings[k] ELSE 0]
  /\ tradeSubmitted = NoAction

\* A TradePanel rendered on a snapshot with an active proposal of any server.
ViewInit ==
  /\ gameId = "none"
  /\ unmounted = FALSE
  /\ replayMode = FALSE
  /\ storeState = NoState
  /\ latestGameStateRef = NoState
  /\ botProcessingRef = FALSE
  /\ pendingBotCheckRef = FALSE
  /\ botProcessingCancelledRef = FALSE
  /\ botDelayTimeoutRef = 0
  /\ isBotThinking = FALSE
  /\ loops = [i \in 1..MaxLoops |-> FreeLoop]
  /\ fetches = [g \in Games |-> 0]
  /\ humanPosts = [x \in Paths \X Games |-> 0]
  /\ pendingAction = "null"
  /\ snackbar = "none"
  /\ enqueued = 0
  /\ pvpSrv = NoState
  /\ pvpPolls = [k \in 1..MaxPolls |-> FreePoll]
  /\ pvpSubmits = [k \in 1..MaxSubmits |-> FreeSubmit]
  /\ SessionInit
  /\ RollIdle
  /\ StatsIdle
  /\ ReplayIdle
  /\ RecordsIdle
  /\ \E c \in {"RED", "BLUE"}, p \in {"DECIDE_TRADE", "DECIDE_ACCEPTEES"},
        t \in ViewProposals :
       \E pl \in PlayableSets(c) :
         tradeGameState =
           [current_color |-> c, current_prompt |-> p,
            winning_color |-> "NONE", has_rolled |-> TRUE, trade |-> t,
            current_playable_actions |-> pl]
  /\ holdings = createEmptyCounts
  /\ request = createEmptyCounts
  /\ offer = createEmptyCounts
  /\ tradeSubmitted = NoAction

\* The proposal form of a viewer who may propose, over every hand.
FormInit ==
  /\ gameId = "none"
  /\ unmounted = FALSE
  /\ replayMode = FALSE
  /\ storeState = NoState
  /\ latestGameStateRef = NoState
  /\ botProcessingRef = FALSE
  /\ pendingBotCheckRef = FALSE
  /\ botProcessingCancelledRef = FALSE
  /\ botDelayTimeoutRef = 0
  /\ isBotThinking = FALSE
  /\ loops = [i \in 1..MaxLoops |-> FreeLoop]
  /\ fetches = [g \in Games |-> 0]
  /\ humanPosts = [x \in Paths \X Games |-> 0]
  /\ pendingAction = "null"
  /\ snackbar = "none"
  /\ enqueued = 0
  /\ pvpSrv = NoState
  /\ pvpPolls = [k \in 1..MaxPolls |-> FreePoll]
  /\ pvpSubmits = [k \in 1..MaxSubmits |-> FreeSubmit]
  /\ SessionInit
  /\ RollIdle
  /\ StatsIdle
  /\ ReplayIdle
  /\ RecordsIdle
  /\ tradeGameState \in
       {s \in TradeSnapshots :
          /\ s.current_color = humanColor /\ s.current_prompt = "PLAY_TURN"
          /\ s.winning_color = "NONE" /\ s.trade = NoTrade
          /\ s.current_playable_actions = {}}
  /\ holdings \in Counts
  /\ offer = createEmptyCounts
  /\ request = createEmptyCounts
  /\ tradeSubmitted = NoAction

\* The records page with a game selected: fetchRecord has started getState
\* and getGameEvents (part_007:1789-1803).
StatsInit ==
  /\ gameId = "none"
  /\ unmounted = FALSE
  /\ replayMode = FALSE
  /\ storeState = NoState
  /\ latestGameStateRef = NoState
  /\ botProcessingRef = FALSE
  /\ pendingBotCheckRef = FALSE
  /\ botProcessingCancelledRef = FALSE
  /\ botDelayTimeoutRef = 0
  /\ isBotThinking = FALSE
  /\ loops = [i \in 1..MaxLoops |-> FreeLoop]
  /\ fetches = [g \in Games |-> 0]
  /\ humanPosts = [x \in Paths \X Games |-> 0]
  /\ pendingAction = "null"
  /\ snackbar = "none"
  /\ enqueued = 0
  /\ pvpSrv = NoState
  /\ pvpPolls = [k \in 1..MaxPolls |-> FreePoll]
  /\ pvpSubmits = [k \in 1..MaxSubmits |-> FreeSubmit]
  /\ SessionInit
  /\ RollIdle
  /\ TradeIdle
  /\ recordState = NoRecord
  /\ gameEvents = <<>>
  /\ negotiationStats = <<>>
  /\ detailLoading = TRUE
  /\ ReplayIdle
  /\ RecordsIdle

\* --------------------------------------------------------------- actions
\* Loops that a teardown leaves behind: each is marked stale, and the ones
\* inside their pacing delay are marked tornInWait.
MarkTornDown(r) ==
  [r EXCEPT !.loops =
     [j \in DOMAIN r.loops |->
        IF r.loops[j].pc = "free" THEN r.loops[j]
        ELSE [r.loops[j] EXCEPT
                !.stale = TRUE,
                !.tornInWait = @ \/ r.loops[j].pc = "wait"]]]

\* PvpLobbyPage.tsx:237-240: the getState of the load effect resolves; the
\* snapshot is dispatched whatever game is shown by then.
FetchArrive(g, sh) ==
  /\ fetches[g] > 0
  /\ fetches' = [fetches EXCEPT ![g] = @ - 1]
  /\ LET r0 == Cur
         r == SnapshotEffect(SetGameState(r0, Snap(g, 0, sh)), gameId)
     IN ~r.overflow /\ Commit(r)
  /\ UNCHANGED <<gameId, humanPosts, pendingAction, pvpVars, rollVars, tradeVars, statsVars, pageVars>>

\* getState rejects: the promise of the load effect is dropped
FetchFail(g) ==
  /\ fetches[g] > 0
  /\ fetches' = [fetches EXCEPT ![g] = @ - 1]
  /\ Commit(Cur)
  /\ UNCHANGED <<gameId, humanPosts, pendingAction, pvpVars, rollVars, tradeVars, statsVars, pageVars>>

\* PvpLobbyPage.tsx:335-347 then 316-335: the postAction of drive loop i
\* resolves with the server's next snapshot.
BotPostOk(i, sh) ==
  /\ i \in DOMAIN loops /\ loops[i].pc = "post"
  /\ LET g == loops[i].gameId
         updatedState == Snap(g, 0, sh)
         r0 == Cur
         r1 == SetGameState(r0, updatedState)
         r2 == IF getHumanColor(updatedState) # "NONE"
               THEN Notify(r1, "record") ELSE r1
         r3 == RunLoop([r2 EXCEPT !.latest = updatedState], i, updatedState)
         r == IF r0.cancelled THEN Finally(r0, i)
              ELSE SnapshotEffect(r3, gameId)
     IN ~r.overflow /\ Commit(r)
  /\ UNCHANGED <<gameId, fetches, humanPosts, pendingAction, pvpVars, rollVars, tradeVars, statsVars, pageVars>>

\* PvpLobbyPage.tsx:349-366: the postAction of drive loop i rejects.
BotPostFail(i) ==
  /\ i \in DOMAIN loops /\ loops[i].pc = "post"
  /\ LET r == Finally(Cur, i)
     IN ~r.overflow /\ Commit(r)
  /\ UNCHANGED <<gameId, fetches, humanPosts, pendingAction, pvpVars, rollVars, tradeVars, statsVars, pageVars>>

\* PvpLobbyPage.tsx:306-309 then 330-335: the pacing timer of loop i fires.
TimerFire(i) ==
  /\ i \in DOMAIN loops /\ loops[i].pc = "wait"
  /\ LET r0 == [Cur EXCEPT !.timerRef = 0]
         r == IF r0.cancelled THEN Finally(r0, i)
              ELSE [r0 EXCEPT !.loops[i].pc = "post", !.loops[i].ms = 0]
     IN ~r.overflow /\ Commit(r)
  /\ UNCHANGED <<gameId, fetches, humanPosts, pendingAction, pvpVars, rollVars, tradeVars, statsVars, pageVars>>

\* The route's gameId changes while GameScreen stays mounted: cleanup of the
\* cancellation effect (PvpLobbyPage.tsx:392-400), then the effects that
\* depend on gameId in source order: load (232-241), snapshot (381-388),
\* cancellation (390-391).
GameIdChange(g) ==
  /\ ~unmounted /\ g # gameId /\ fetches[g] < MaxFetches
  /\ gameId' = g
  /\ fetches' = [fetches EXCEPT ![g] = @ + 1]
  /\ LET r0 == MarkTornDown(Cur)
         r1 == ClearBotDelay([r0 EXCEPT !.cancelled = TRUE])
         r2 == [r1 EXCEPT !.processing = FALSE, !.pending = FALSE]
         r3 == SnapshotEffect(r2, g)
         r == [r3 EXCEPT !.cancelled = FALSE]
     IN ~r.overflow /\ Commit(r)
  /\ UNCHANGED <<humanPosts, pendingAction, pvpVars, rollVars, tradeVars, statsVars, pageVars>>

\* GameScreen unmounts: cleanups of PvpLobbyPage.tsx:245-253 and 392-400.
Unmount ==
  /\ ~unmounted
  /\ LET r0 == MarkTornDown(Cur)
         r1 == ClearBotDelay([r0 EXCEPT !.unmounted = TRUE])
         r2 == ClearBotDelay([r1 EXCEPT !.cancelled = TRUE])
         r == [r2 EXCEPT !.processing = FALSE, !.pending = FALSE]
     IN Commit(r)
  /\ UNCHANGED <<gameId, fetches, humanPosts, pendingAction, pvpVars, rollVars, tradeVars, statsVars, pageVars>>

\* A human control submits an action through executePlayerAction
\* (PvpLobbyPage.tsx:426-434): toolbar part_007:718-727, board
\* part_007:1459-1468, trade panel part_003:178-185.
HumanSubmit(path) ==
  /\ ControlEnabled(path)
  /\ OutstandingHuman < MaxHumanPosts
  /\ humanPosts' = [humanPosts EXCEPT ![<<path, gameId>>] = @ + 1]
  /\ IF path = "trade"
     THEN \E a \in TradeButtons(storeState, pendingAction) :
            pendingAction' = a
     ELSE pendingAction' = pendingAction
  /\ Commit(Cur)
  /\ UNCHANGED <<gameId, fetches, pvpVars, rollVars, tradeVars, statsVars, pageVars>>

\* The request of a human control resolves: part_007:725-727 (toolbar),
\* part_007:1467-1468 (board), part_003:185-199 (trade panel).
HumanPostOk(path, g, sh) ==
  /\ humanPosts[<<path, g>>] > 0
  /\ humanPosts' = [humanPosts EXCEPT ![<<path, g>>] = @ - 1]
  /\ pendingAction' = IF path = "trade" THEN "null" ELSE pendingAction
  /\ LET updatedState == Snap(g, 0, sh)
         r0 == Cur
         r1 == SetGameState(r0, updatedState)
         r2 == IF path = "board" THEN r1 ELSE Notify(r1, "record")
         r == SnapshotEffect(r2, gameId)
     IN ~r.overflow /\ Commit(r)
  /\ UNCHANGED <<gameId, fetches, pvpVars, rollVars, tradeVars, statsVars, pageVars>>

\* The request of a human control rejects: part_007:728-733 (toolbar),
\* part_007:1469-1471 (board), part_003:192-199 (trade panel).
HumanPostFail(path, g) ==
  /\ humanPosts[<<path, g>>] > 0
  /\ humanPosts' = [humanPosts EXCEPT ![<<path, g>>] = @ - 1]
  /\ pendingAction' = IF path = "trade" THEN "null" ELSE pendingAction
  /\ LET r0 == Cur
     IN Commit(IF path = "board" THEN r0 ELSE Notify(r0, "error"))
  /\ UNCHANGED <<gameId, fetches, pvpVars, rollVars, tradeVars, statsVars, pageVars>>

\* ------------------------------------------------------- PvpRoomPage steps
PvpShapes == {"HUMAN_PLAY", "BOT_PLAY"}

pvpFrame == UNCHANGED <<gameId, fetches, humanPosts, rollVars, tradeVars, statsVars, pageVars>>

sessionFrame ==
  UNCHANGED <<pvpToken, pvpSeatColor, joinDialogOpen, pvpTokenValid>>

\* The host starts the room's game.
PvpStart(sh) ==
  /\ pvpSrv = NoState
  /\ pvpSrv' = Snap(roomGame, 0, sh)
  /\ Commit(Cur)
  /\ UNCHANGED <<pvpPolls, pvpSubmits, pendingAction>> /\ sessionFrame /\ pvpFrame

\* The server applies an action of another seat.
PvpOther(sh) ==
  /\ pvpSrv # NoState /\ pvpSrv.state_index < MaxIndex
  /\ pvpSrv' = Snap(roomGame, pvpSrv.state_index + 1, sh)
  /\ Commit(Cur)
  /\ UNCHANGED <<pvpPolls, pvpSubmits, pendingAction>> /\ sessionFrame /\ pvpFrame

\* part_007:216-220: the interval calls fetchStatus.
PvpPollTick(k) ==
  /\ pvpPolls[k].phase = "free"
  /\ \A m \in 1..(k - 1) : pvpPolls[m].phase # "free"
  /\ pvpPolls' = [pvpPolls EXCEPT ![k] = [FreePoll EXCEPT !.phase = "status",
                                                          !.token = pvpToken]]
  /\ Commit(Cur)
  /\ UNCHANGED <<pvpSrv, pvpSubmits, pendingAction>> /\ sessionFrame /\ pvpFrame

\* part_007:195-203: getPvpRoomStatus resolves.
PvpStatusOk(k) ==
  /\ pvpPolls[k].phase = "status"
  /\ pvpPolls[k].token = "none" \/ pvpTokenValid
  /\ pvpSeatColor' = IF pvpPolls[k].token # "none"
                     THEN SeatOf(pvpPolls[k].token)
                     ELSE pvpSeatColor
  /\ UNCHANGED <<pvpToken, joinDialogOpen, pvpTokenValid>>
  /\ IF pvpSrv # NoState /\ pvpPolls[k].token # "none"
     THEN /\ pvpPolls' = [pvpPolls EXCEPT ![k].phase = "state"]
          /\ Commit(Cur)
          /\ UNCHANGED pendingAction
     ELSE /\ pvpPolls' = [pvpPolls EXCEPT ![k] = FreePoll]
          /\ Commit(PollDone(SetGameState(Cur, NoState), k))
          /\ pendingAction' = IF pvpPolls[k].after # NoState
                              THEN PendingAfter(pvpPolls[k].path)
                              ELSE pendingAction
  /\ UNCHANGED <<pvpSrv, pvpSubmits>> /\ pvpFrame

\* The server answers getPvpGameState with the game as it is then.
PvpStateAnswer(k) ==
  /\ pvpPolls[k].phase = "state"
  /\ pvpTokenValid
  /\ pvpPolls' = [pvpPolls EXCEPT ![k].phase = "reply", ![k].snap = pvpSrv]
  /\ Commit(Cur)
  /\ UNCHANGED <<pvpSrv, pvpSubmits, pendingAction>> /\ sessionFrame /\ pvpFrame

\* part_007:199-200: getPvpGameState resolves and the snapshot is dispatched.
PvpStateOk(k) ==
  /\ pvpPolls[k].phase = "reply"
  /\ pvpPolls' = [pvpPolls EXCEPT ![k] = FreePoll]
  /\ Commit(PollDone(SetGameState(Cur, pvpPolls[k].snap), k))
  /\ pendingAction' = IF pvpPolls[k].after # NoState
                      THEN PendingAfter(pvpPolls[k].path)
                      ELSE pendingAction
  /\ UNCHANGED <<pvpSrv, pvpSubmits>> /\ sessionFrame /\ pvpFrame

\* part_007:205-213: a request of fetchStatus rejects (not with 401).
PvpPollFail(k) ==
  /\ pvpPolls[k].phase \in {"status", "state", "reply"}
  /\ pvpPolls' = [pvpPolls EXCEPT ![k] = FreePoll]
  /\ Commit(PollDone(Cur, k))
  /\ pendingAction' = IF pvpPolls[k].after # NoState
                      THEN PendingAfter(pvpPolls[k].path)
                      ELSE pendingAction
  /\ UNCHANGED <<pvpSrv, pvpSubmits>> /\ sessionFrame /\ pvpFrame

\* The server stops accepting the seat's token.
PvpRevoke ==
  /\ pvpTokenValid
  /\ pvpTokenValid' = FALSE
  /\ Commit(Cur)
  /\ UNCHANGED <<pvpSrv, pvpPolls, pvpSubmits, pendingAction, pvpToken,
                 pvpSeatColor, joinDialogOpen>>
  /\ pvpFrame

\* part_007:205-211: getPvpRoomStatus or getPvpGameState of fetchStatus is
\* answered 401: clearSession (part_007:158-167), and fetchStatus returns to
\* a submitAction that awaited it.  When the token state changes, the poll
\* effect is run again with the new fetchStatus, which it calls at once
\* (part_007:216-220).
PvpPoll401(k) ==
  /\ pvpPolls[k].phase \in {"status", "state"}
  /\ pvpPolls[k].token # "none"
  /\ ~pvpTokenValid
  /\ pvpToken' = "none"
  /\ pvpSeatColor' = "none"
  /\ joinDialogOpen' = TRUE
  /\ pvpPolls' = [pvpPolls EXCEPT
                    ![k] = IF pvpToken # "none"
                           THEN [FreePoll EXCEPT !.phase = "status"]
                           ELSE FreePoll]
  /\ Commit(PollDone(Cur, k))
  /\ pendingAction' = IF pvpPolls[k].after # NoState
                      THEN PendingAfter(pvpPolls[k].path)
                      ELSE pendingAction
  /\ UNCHANGED <<pvpSrv, pvpSubmits, pvpTokenValid>> /\ pvpFrame

\* A control of the seat holder calls submitAction (part_007:310-331):
\* postPvpAction carries the state_index of the closure's snapshot.
PvpSubmit(path, k) ==
  /\ PvpControlEnabled(path)
  /\ pvpToken # "none" /\ pvpSeatColor # "none"
  /\ pvpSubmits[k].phase = "free"
  /\ \A m \in 1..(k - 1) : pvpSubmits[m].phase # "free"
  /\ pvpSubmits' = [pvpSubmits EXCEPT
                      ![k] = [FreeSubmit EXCEPT !.phase = "sent",
                                                !.closure = storeState,
                                                !.path = path,
                                                !.token = pvpToken]]
  /\ IF path = "trade"
     THEN \E a \in TradeButtons(storeState, pendingAction) :
            pendingAction' = a
     ELSE pendingAction' = pendingAction
  /\ Commit(Cur)
  /\ UNCHANGED <<pvpSrv, pvpPolls>> /\ sessionFrame /\ pvpFrame

\* The server applies the action: expected_state_index is its state_index.
PvpServerAccept(k, sh) ==
  /\ pvpSubmits[k].phase = "sent"
  /\ pvpTokenValid
  /\ pvpSrv # NoState /\ pvpSrv.state_index < MaxIndex
  /\ pvpSubmits[k].closure.state_index = pvpSrv.state_index
  /\ pvpSrv' = Snap(roomGame, pvpSrv.state_index + 1, sh)
  /\ pvpSubmits' = [pvpSubmits EXCEPT ![k].phase = "ok", ![k].snap = pvpSrv']
  /\ Commit(Cur)
  /\ UNCHANGED <<pvpPolls, pendingAction>> /\ sessionFrame /\ pvpFrame

\* The server refuses the action with 409: expected_state_index is stale.
PvpServerReject(k) ==
  /\ pvpSubmits[k].phase = "sent"
  /\ pvpTokenValid
  /\ pvpSrv # NoState
  /\ pvpSubmits[k].closure.state_index # pvpSrv.state_index
  /\ pvpSubmits' = [pvpSubmits EXCEPT ![k].phase = "conflict"]
  /\ Commit(Cur)
  /\ UNCHANGED <<pvpSrv, pvpPolls, pendingAction>> /\ sessionFrame /\ pvpFrame

\* part_007:332-334: postPvpAction resolves; then the control's handler.
PvpSubmitOk(k) ==
  /\ pvpSubmits[k].phase = "ok"
  /\ pvpSubmits' = [pvpSubmits EXCEPT ![k] = FreeSubmit]
  /\ LET updated == pvpSubmits[k].snap
         r1 == Notify(SetGameState(Cur, updated), "record")
     IN Commit(CallerResume(r1, pvpSubmits[k].path, updated))
  /\ pendingAction' = PendingAfter(pvpSubmits[k].path)
  /\ UNCHANGED <<pvpSrv, pvpPolls>> /\ sessionFrame /\ pvpFrame

PvpSubmitConflictResubmits(k, p) ==
  /\ pvpSubmits[k].phase = "conflict"
  /\ pvpPolls[p].phase = "free"
  /\ pvpSubmits' = [pvpSubmits EXCEPT ![k].phase = "sent",
                                      ![k].closure = storeState]
  /\ Commit(Cur)
  /\ UNCHANGED <<pvpSrv, pvpPolls, pendingAction>> /\ sessionFrame /\ pvpFrame

\* part_007:335-339: postPvpAction rejects with 409; submitAction awaits
\* fetchStatus.
PvpSubmitConflict(k, p) ==
  /\ pvpSubmits[k].phase = "conflict"
  /\ pvpPolls[p].phase = "free"
  /\ \A m \in 1..(p - 1) : pvpPolls[m].phase # "free"
  /\ pvpSubmits' = [pvpSubmits EXCEPT ![k] = FreeSubmit]
  /\ pvpPolls' = [pvpPolls EXCEPT
                    ![p] = [FreePoll EXCEPT !.phase = "status",
                                            !.after = pvpSubmits[k].closure,
                                            !.path = pvpSubmits[k].path,
                                            !.token = pvpSubmits[k].token]]
  /\ Commit(Cur)
  /\ UNCHANGED <<pvpSrv, pendingAction>> /\ sessionFrame /\ pvpFrame

\* part_007:335-341: postPvpAction rejects otherwise (network, 4xx, 5xx);
\* submitAction returns its closure's state.gameState to the control.
PvpSubmitFail(k) ==
  /\ pvpSubmits[k].phase \in {"sent", "ok"}
  /\ pvpSubmits' = [pvpSubmits EXCEPT ![k] = FreeSubmit]
  /\ Commit(CallerResume(Cur, pvpSubmits[k].path, pvpSubmits[k].closure))
  /\ pendingAction' = PendingAfter(pvpSubmits[k].path)
  /\ UNCHANGED <<pvpSrv, pvpPolls>> /\ sessionFrame /\ pvpFrame

\* ---------------------------------------------------- useRollDisplay steps
\* The store's snapshot is replaced (by a different or an equal one) and the
\* hook renders with it.  First a variant whose effect returns at once when
\* the snapshot is null, without the four resets of lines 122-125.
RollSnapshotKeepsOnReset(s) ==
  /\ gameState' = s
  /\ CommitHook(IF s = NullGame THEN Hook ELSE RunRollEffect(s, Hook))
  /\ UNCHANGED <<gsVars, pvpVars, tradeVars, statsVars, pageVars>>

\* useSoundEffects.ts:120-156 after the render with the new snapshot.
RollSnapshot(s) ==
  /\ gameState' = s
  /\ CommitHook(RunRollEffect(s, Hook))
  /\ UNCHANGED <<gsVars, pvpVars, tradeVars, statsVars, pageVars>>

\* finalizeOverlay without the two resets of the overlay that end it: the
\* revealed roll is settled and stays in the overlay.
finalizeOverlayKeepsOverlay ==
  /\ overlayVisible
  /\ LET h == Hook
         h1 == IF h.overlayKey # NoKey /\ h.overlayRoll # NoRoll
               THEN [h EXCEPT !.displayRoll = h.overlayRoll,
                              !.displayRollKey = h.overlayKey]
               ELSE h
     IN CommitHook(RunRollEffect(gameState, h1))
  /\ UNCHANGED <<gameState, gsVars, pvpVars, tradeVars, statsVars, pageVars>>

\* The overlay's timer calls onComplete (part_004:25-41): finalizeOverlay
\* (useSoundEffects.ts:158-165), then the effect of the render that follows.
finalizeOverlay ==
  /\ overlayVisible
  /\ LET h == Hook
         h1 == IF h.overlayKey # NoKey /\ h.overlayRoll # NoRoll
               THEN [h EXCEPT !.displayRoll = h.overlayRoll,
                              !.displayRollKey = h.overlayKey]
               ELSE h
         h2 == [h1 EXCEPT !.overlayRoll = NoRoll, !.overlayKey = NoKey]
     IN CommitHook(RunRollEffect(gameState, h2))
  /\ UNCHANGED <<gameState, gsVars, pvpVars, tradeVars, statsVars, pageVars>>

\* --------------------------------------------------------- TradePanel steps
tradeFrame ==
  UNCHANGED <<gameId, unmounted, replayMode, storeState, latestGameStateRef,
              botProcessingRef, pendingBotCheckRef, botProcessingCancelledRef,
              botDelayTimeoutRef, isBotThinking, loops, fetches, humanPosts,
              pvpVars, rollVars, statsVars, pageVars>>

\* A click on an enabled button of the panel: submitAction up to its await
\* (part_003:178-184).
TradeClick(a) ==
  /\ a \in EnabledTradeActions
  /\ tradeSubmitted = NoAction
  /\ pendingAction' = a[2]
  /\ tradeSubmitted' = a
  /\ UNCHANGED <<tradeGameState, holdings, offer, request, snackbar, enqueued>>
  /\ tradeFrame

\* part_003:185-191, 199: actionExecutor resolves
TradeSubmitOk ==
  /\ tradeSubmitted # NoAction
  /\ tradeGameState' = TradeAnswer(tradeGameState, tradeSubmitted)
  /\ snackbar' = "record"
  /\ enqueued' = 1
  /\ IF tradeSubmitted[2] = "OFFER_TRADE"
     THEN offer' = createEmptyCounts /\ request' = createEmptyCounts
     ELSE UNCHANGED <<offer, request>>
  /\ pendingAction' = "null"
  /\ tradeSubmitted' = NoAction
  /\ UNCHANGED holdings
  /\ tradeFrame

\* part_003:192-199: actionExecutor rejects
TradeSubmitFail ==
  /\ tradeSubmitted # NoAction
  /\ snackbar' = "error"
  /\ enqueued' = 1
  /\ pendingAction' = "null"
  /\ tradeSubmitted' = NoAction
  /\ UNCHANGED <<tradeGameState, holdings, offer, request>>
  /\ tradeFrame

\* The panel inside PvpRoomPage, whose executor is the page's submitAction:
\* postPvpAction rejects, the executor catches the rejection and resolves
\* with its closure's state.gameState (part_007:335-341), and the panel goes
\* on after its await as for an accepted action (part_003:185-191, 199).
TradeSubmitSwallowed ==
  /\ tradeSubmitted # NoAction
  /\ tradeGameState' = tradeGameState
  /\ snackbar' = "record"
  /\ enqueued' = 1
  /\ IF tradeSubmitted[2] = "OFFER_TRADE"
     THEN offer' = createEmptyCounts /\ request' = createEmptyCounts
     ELSE UNCHANGED <<offer, request>>
  /\ pendingAction' = "null"
  /\ tradeSubmitted' = NoAction
  /\ UNCHANGED holdings
  /\ tradeFrame

formFrame ==
  /\ UNCHANGED <<tradeGameState, holdings, tradeSubmitted, pendingAction,
                 snackbar, enqueued>>
  /\ tradeFrame

\* part_003:258-282, 635-642
incrementOffer(k) ==
  /\ offer[k] < holdings[k]
  /\ offer' = [offer EXCEPT ![k] = @ + 1]
  /\ UNCHANGED request
  /\ formFrame

\* The minus buttons are never disabled (part_003:627-633, 645-651): the
\* count stops at 0 through Math.max(0, ...) of handleAdjust (269-272).
decrementOffer(k) ==
  /\ offer' = [offer EXCEPT ![k] = IF @ - 1 < 0 THEN 0 ELSE @ - 1]
  /\ UNCHANGED request
  /\ formFrame

\* part_003:645-660; the form has no upper limit, the model stops at MaxCount
incrementRequest(k) ==
  /\ request[k] < MaxCount
  /\ request' = [request EXCEPT ![k] = @ + 1]
  /\ UNCHANGED offer
  /\ formFrame

decrementRequest(k) ==
  /\ request' = [request EXCEPT ![k] = IF @ - 1 < 0 THEN 0 ELSE @ - 1]
  /\ UNCHANGED offer
  /\ formFrame

\* part_003:284-287, 666-673
resetForm ==
  /\ pendingAction = "null"
  /\ ~(offerTotal = 0 /\ requestTotal = 0)
  /\ offer' = createEmptyCounts
  /\ request' = createEmptyCounts
  /\ formFrame

\* A snapshot with another hand for the viewer arrives: the render, then the
\* effect on availableCounts (part_003:160-176).
HoldingsArrive(h) ==
  /\ h # holdings
  /\ holdings' = h
  /\ offer' = ClampOffer(offer, h)
  /\ UNCHANGED <<tradeGameState, request, tradeSubmitted, pendingAction,
                 snackbar, enqueued>>
  /\ tradeFrame

\* The seats of a game are fixed when it is created: g1 seats the human RED
\* and the bot BLUE, g2 seats two bots.
SeatedBots(g) == IF g = "g1" THEN {"BLUE"} ELSE {"RED", "BLUE"}

\* The snapshots the server can return for game g.
GameShapes(g) ==
  {sh \in PacingShapeNames : Shapes[sh].bot_colors = SeatedBots(g)}

\* The bot runner over every kind of snapshot of the two games.
PacingNext ==
  \/ \E g \in Games : \E sh \in GameShapes(g) : FetchArrive(g, sh)
  \/ \E g \in Games : FetchFail(g)
  \/ \E i \in 1..MaxLoops : \E sh \in GameShapes(loops[i].gameId) :
       BotPostOk(i, sh)
  \/ \E i \in 1..MaxLoops : BotPostFail(i)
  \/ \E i \in 1..MaxLoops : TimerFire(i)
  \/ \E g \in Games : GameIdChange(g)
  \/ Unmount

\* The bot runner when no request fails: every getState and every postAction
\* resolves with a snapshot.
RunnerNext ==
  \/ \E g \in Games, sh \in ShapeNames : FetchArrive(g, sh)
  \/ \E i \in 1..MaxLoops, sh \in ShapeNames : BotPostOk(i, sh)
  \/ \E i \in 1..MaxLoops : TimerFire(i)
  \/ \E g \in Games : GameIdChange(g)
  \/ Unmount

\* ------------------------------------------------------ records page steps
statsFrame == UNCHANGED <<gsVars, pvpVars, rollVars, tradeVars, pageVars>>

\* part_007:1804-1809, 1815-1817 and the render that follows: both requests
\* of fetchRecord have resolved.
fetchRecordOk(gs, events) ==
  /\ detailLoading
  /\ recordState' = gs
  /\ gameEvents' = events
  /\ negotiationStats' = statsMemo(gs, events)
  /\ detailLoading' = FALSE
  /\ statsFrame

\* part_007:1810-1817: getState has rejected.
fetchRecordFail ==
  /\ detailLoading
  /\ recordState' = NoRecord
  /\ gameEvents' = <<>>
  /\ negotiationStats' = statsMemo(NoRecord, <<>>)
  /\ detailLoading' = FALSE
  /\ statsFrame

\* A record with its timestamps; getGameEvents has failed or found nothing
\* (part_007:1800-1803).
StatsNext ==
  \/ /\ detailLoading
     /\ \E n \in 0..MaxHist :
          \E h \in [1..n -> StatsRecords], ts \in StampChoices(n) :
            answersOnce(h) /\ fetchRecordOk(StatsSnapshot(h, ts), <<>>)
  \/ fetchRecordFail

\* A record with its events.
AdviceNext ==
  \/ /\ detailLoading
     /\ \E n \in 0..MaxHist :
          \E h \in [1..n -> AdviceRecords],
             b \in {{"BLUE", "WHITE"}, {"WHITE"}},
             events \in EventLists(MaxHist, MaxAdvice) :
            fetchRecordOk(AdviceSnapshot(h, b), events)
  \/ fetchRecordFail

\* The bot runner under snapshot arrivals, game-id changes and unmount.
GsNext ==
  \/ \E g \in Games, sh \in ShapeNames : FetchArrive(g, sh)
  \/ \E g \in Games : FetchFail(g)
  \/ \E i \in 1..MaxLoops, sh \in ShapeNames : BotPostOk(i, sh)
  \/ \E i \in 1..MaxLoops : BotPostFail(i)
  \/ \E i \in 1..MaxLoops : TimerFire(i)
  \/ \E g \in Games : GameIdChange(g)
  \/ Unmount

\* The human controls of one game together with the bot runner.
CtlNext ==
  \/ \E g \in Games, sh \in ShapeNames : FetchArrive(g, sh)
  \/ \E i \in 1..MaxLoops, sh \in ShapeNames : BotPostOk(i, sh)
  \/ \E i \in 1..MaxLoops : BotPostFail(i)
  \/ \E i \in 1..MaxLoops : TimerFire(i)
  \/ \E path \in Paths : HumanSubmit(path)
  \/ \E path \in Paths, g \in Games, sh \in ShapeNames : HumanPostOk(path, g, sh)
  \/ \E path \in Paths, g \in Games : HumanPostFail(path, g)

\* PvpRoomPage: the status poll and the action executor against the server.
PvpNext ==
  \/ \E sh \in PvpShapes : PvpStart(sh)
  \/ \E sh \in PvpShapes : PvpOther(sh)
  \/ \E k \in 1..MaxPolls : PvpPollTick(k)
  \/ \E k \in 1..MaxPolls : PvpStatusOk(k)
  \/ \E k \in 1..MaxPolls : PvpStateAnswer(k)
  \/ \E k \in 1..MaxPolls : PvpStateOk(k)
  \/ \E k \in 1..MaxPolls : PvpPollFail(k)
  \/ PvpRevoke
  \/ \E k \in 1..MaxPolls : PvpPoll401(k)
  \/ \E path \in Paths, k \in 1..MaxSubmits : PvpSubmit(path, k)
  \/ \E k \in 1..MaxSubmits, sh \in PvpShapes : PvpServerAccept(k, sh)
  \/ \E k \in 1..MaxSubmits : PvpServerReject(k)
  \/ \E k \in 1..MaxSubmits : PvpSubmitOk(k)
  \/ \E k \in 1..MaxSubmits, p \in 1..MaxPolls : PvpSubmitConflict(k, p)
  \/ \E k \in 1..MaxSubmits : PvpSubmitFail(k)

\* The calls of fetchStatus and submitAction that have not returned.
InFlight ==
  Cardinality({m \in 1..MaxPolls : pvpPolls[m].phase # "free"})
    + Cardinality({m \in 1..MaxSubmits : pvpSubmits[m].phase # "free"})

\* The interval's fetchStatus when the one before it has returned (the
\* requests of a poll take less than POLL_INTERVAL_MS).
PvpPollTickInTime(k) ==
  /\ \A m \in 1..MaxPolls :
       pvpPolls[m].phase = "free" \/ pvpPolls[m].after # NoState
  /\ InFlight < MaxPolls
  /\ PvpPollTick(k)

\* A click on the board while fewer than MaxPolls calls are pending.
PvpBoardClick(k) ==
  /\ InFlight < MaxPolls
  /\ PvpSubmit("board", k)

\* A spectator's click with the seat check of submitAction and the
\* actionsDisabled check of executeAction left out: the action is posted.
PvpSpectatorClickSubmits(k) ==
  /\ pvpToken # "none" /\ pvpSeatColor = "none"
  /\ storeState # NoState
  /\ InFlight < MaxPolls
  /\ pvpSubmits[k].phase = "free"
  /\ \A m \in 1..(k - 1) : pvpSubmits[m].phase # "free"
  /\ pvpSubmits' = [pvpSubmits EXCEPT
                      ![k] = [FreeSubmit EXCEPT !.phase = "sent",
                                                !.closure = storeState,
                                                !.path = "board",
                                                !.token = pvpToken]]
  /\ Commit(Cur)
  /\ UNCHANGED <<pvpSrv, pvpPolls, pendingAction>> /\ sessionFrame /\ pvpFrame

\* A viewer with a token and no seat clicks a node or an edge of the board
\* (the toolbar and the trade panel are not rendered for a spectator,
\* part_007:550, 578): executeAction returns state.gameState because
\* actionsDisabled holds (part_007:1441-1445, 546), and the click handler
\* dispatches that snapshot (1467-1468).  k is the slot a request would take.
PvpSpectatorClick(k) ==
  /\ pvpToken # "none" /\ pvpSeatColor = "none"
  /\ storeState # NoState
  /\ InFlight < MaxPolls
  /\ pvpSubmits[k].phase = "free"
  /\ \A m \in 1..(k - 1) : pvpSubmits[m].phase # "free"
  /\ Commit(SetGameState(Cur, storeState))
  /\ UNCHANGED <<pvpSrv, pvpPolls, pvpSubmits, pendingAction>>
  /\ sessionFrame /\ pvpFrame

\* PvpRoomPage with the seat holder's session or a spectator's.
SpectatorNext ==
  \/ PvpStart("HUMAN_PLAY")
  \/ PvpOther("HUMAN_PLAY")
  \/ \E k \in 1..MaxPolls : PvpPollTickInTime(k)
  \/ \E k \in 1..MaxPolls : PvpStatusOk(k)
  \/ \E k \in 1..MaxPolls : PvpStateAnswer(k)
  \/ \E k \in 1..MaxPolls : PvpStateOk(k)
  \/ \E k \in 1..MaxPolls : PvpPollFail(k)
  \/ \E k \in 1..MaxSubmits : PvpBoardClick(k)
  \/ \E k \in 1..MaxSubmits : PvpSpectatorClick(k)
  \/ \E k \in 1..MaxSubmits : PvpServerAccept(k, "HUMAN_PLAY")
  \/ \E k \in 1..MaxSubmits : PvpServerReject(k)
  \/ \E k \in 1..MaxSubmits : PvpSubmitOk(k)
  \/ \E k \in 1..MaxSubmits, p \in 1..MaxPolls : PvpSubmitConflict(k, p)
  \/ \E k \in 1..MaxSubmits : PvpSubmitFail(k)

\* PvpRoomPage: the seat holder's board clicks, the status poll and the
\* session's token against the server, in a game where the seat is to move.
SessionNext ==
  \/ PvpStart("HUMAN_PLAY")
  \/ PvpOther("HUMAN_PLAY")
  \/ \E k \in 1..MaxPolls : PvpPollTickInTime(k)
  \/ \E k \in 1..MaxPolls : PvpStatusOk(k)
  \/ \E k \in 1..MaxPolls : PvpStateAnswer(k)
  \/ \E k \in 1..MaxPolls : PvpStateOk(k)
  \/ \E k \in 1..MaxPolls : PvpPollFail(k)
  \/ PvpRevoke
  \/ \E k \in 1..MaxPolls : PvpPoll401(k)
  \/ \E k \in 1..MaxSubmits : PvpBoardClick(k)
  \/ \E k \in 1..MaxSubmits : PvpServerAccept(k, "HUMAN_PLAY")
  \/ \E k \in 1..MaxSubmits : PvpServerReject(k)
  \/ \E k \in 1..MaxSubmits : PvpSubmitOk(k)
  \/ \E k \in 1..MaxSubmits, p \in 1..MaxPolls : PvpSubmitConflict(k, p)
  \/ \E k \in 1..MaxSubmits : PvpSubmitFail(k)

\* The roll display under arbitrary replacements of the store's snapshot.
RollNext ==
  \/ \E s \in RollSnapshots \cup {NullGame} : RollSnapshot(s)
  \/ finalizeOverlay

\* TradePanel: the buttons of the panel over every snapshot.
TradeNext ==
  \/ \E a \in EnabledTradeActions : TradeClick(a)
  \/ TradeSubmitOk
  \/ TradeSubmitFail

\* TradePanel: the proposal form.
FormNext ==
  \/ \E k \in Resources : incrementOffer(k)
  \/ \E k \in Resources : decrementOffer(k)
  \/ \E k \in Resources : incrementRequest(k)
  \/ \E k \in Resources : decrementRequest(k)
  \/ resetForm
  \/ \E h \in Counts : HoldingsArrive(h)
  \/ \E a \in EnabledTradeActions : TradeClick(a)
  \/ TradeSubmitOk
  \/ TradeSubmitFail

\* TradePanel's proposal form inside PvpRoomPage.
RoomFormNext ==
  \/ FormNext
  \/ TradeSubmitSwallowed

vars == <<gsVars, pvpVars, rollVars, tradeVars, statsVars, pageVars>>

SpecGame == GsInit /\ [][GsNext]_vars

SpecControls == GsInit /\ [][CtlNext]_vars

SpecPvp == PvpInit /\ [][PvpNext]_vars

SpecRoll == RollInit /\ [][RollNext]_vars

SpecSession == PvpInit /\ [][SessionNext]_vars

SpecTrade == TradeInit /\ [][TradeNext]_vars

SpecForm == FormInit /\ [][FormNext]_vars

SpecView == ViewInit /\ [][TradeNext]_vars

\* A timer that is set fires (setTimeout, PvpLobbyPage.tsx:306-309), and a
\* request that was sent is answered.
RunnerFairness ==
  /\ \A i \in 1..MaxLoops : WF_vars(TimerFire(i))
  /\ \A i \in 1..MaxLoops : WF_vars(\E sh \in ShapeNames : BotPostOk(i, sh))
  /\ \A g \in Games : WF_vars(\E sh \in ShapeNames : FetchArrive(g, sh))

SpecRunner == GsInit /\ [][RunnerNext]_vars /\ RunnerFairness

SpecSpectator == SpectatorInit /\ [][SpectatorNext]_vars

SpecReplayMode == ReplayInit /\ [][GsNext]_vars

SpecRoomForm == FormInit /\ [][RoomFormNext]_vars

SpecPacing == GsInit /\ [][PacingNext]_vars

\* ------------------------------------------------------------ ReplayScreen
\* ReplayScreen.tsx:24-25, 36-55: the screen has mounted; the first effect
\* has asked for the latest state and the second for state 0.
ReplayScreenInit ==
  /\ gameId = "none"
  /\ unmounted = FALSE
  /\ replayMode = FALSE
  /\ storeState = NoState
  /\ latestGameStateRef = NoState
  /\ botProcessingRef = FALSE
  /\ pendingBotCheckRef = FALSE
  /\ botProcessingCancelledRef = FALSE
  /\ botDelayTimeoutRef = 0
  /\ isBotThinking = FALSE
  /\ loops = [i \in 1..MaxLoops |-> FreeLoop]
  /\ fetches = [g \in Games |-> 0]
  /\ humanPosts = [x \in Paths \X Games |-> 0]
  /\ pendingAction = "null"
  /\ snackbar = "none"
  /\ enqueued = 0
  /\ pvpSrv = NoState
  /\ pvpPolls = [k \in 1..MaxPolls |-> FreePoll]
  /\ pvpSubmits = [k \in 1..MaxSubmits |-> FreeSubmit]
  /\ SessionInit
  /\ RollIdle
  /\ TradeIdle
  /\ StatsIdle
  /\ RecordsIdle
  /\ replayLatest \in 0..MaxReplayIndex
  /\ stateIndex = 0
  /\ latestStateIndex = 0
  /\ inputValue = ToString(0)
  /\ replayFetches = [k \in 1..MaxReplayFetches |->
                        IF k = 1 THEN "latest" ELSE IF k = 2 THEN "0" ELSE "free"]
  /\ replayStore = NoSnapshot

replayFrame == UNCHANGED <<gsVars, pvpVars, rollVars, tradeVars, statsVars,
                           recordVars>>

\* The state indexes a request of ReplayScreen can name.
ReplayIndexes == 0..(MaxReplayIndex + 1)

\* ReplayScreen.tsx:46-55 after setStateIndex(next): React re-renders only
\* when the value differs, and the effect on stateIndex then starts
\* getState(gameId, next).
setStateIndex(next) ==
  /\ stateIndex' = next
  /\ IF next = stateIndex
     THEN replayFetches' = replayFetches
     ELSE /\ \E k \in 1..MaxReplayFetches : replayFetches[k] = "free"
          /\ replayFetches' =
               [replayFetches EXCEPT
                  ![CHOOSE k \in 1..MaxReplayFetches :
                      /\ replayFetches[k] = "free"
                      /\ \A j \in 1..(k - 1) : replayFetches[j] # "free"]
                    = ToString(next)]

\* ReplayScreen.tsx:33, the button of ReplayBox.tsx:63-71
handlePrevState ==
  /\ stateIndex # 0
  /\ setStateIndex(IF stateIndex - 1 > 0 THEN stateIndex - 1 ELSE 0)
  /\ UNCHANGED <<latestStateIndex, inputValue, replayStore, replayLatest>>
  /\ replayFrame

\* ReplayScreen.tsx:34, the button of ReplayBox.tsx:73-81
handleNextState ==
  /\ stateIndex # latestStateIndex
  /\ setStateIndex(IF stateIndex + 1 < latestStateIndex
                   THEN stateIndex + 1 ELSE latestStateIndex)
  /\ UNCHANGED <<latestStateIndex, inputValue, replayStore, replayLatest>>
  /\ replayFrame

\* ReplayBox.tsx:45-52 and ReplayScreen.tsx:97: the slider, whose values run
\* from min to max, hands one to onSeekMove.
onSeekMove(value) ==
  /\ value \in 0..latestStateIndex
  /\ setStateIndex(value)
  /\ UNCHANGED <<latestStateIndex, inputValue, replayStore, replayLatest>>
  /\ replayFrame

\* The texts typed into the field of ReplayBox.tsx:54-60.
InputTexts ==
  {"", " ", "abc", "Infinity", "-1", "1.9"} \cup {ToString(i) : i \in ReplayIndexes}

\* ReplayBox.tsx:58: onChange={setInputValue}
setInputValue(text) ==
  /\ text \in InputTexts
  /\ inputValue' = text
  /\ UNCHANGED <<stateIndex, latestStateIndex, replayFetches, replayStore,
                 replayLatest>>
  /\ replayFrame

\* Number(text) of ReplayBox.tsx:29: the value in tenths, and whether
\* Number.isFinite accepts it (NaN and Infinity are not finite).
NumberOf(text) ==
  IF text \in {"abc", "Infinity"} THEN [finite |-> FALSE, tenths |-> 0]
  ELSE IF text = "-1" THEN [finite |-> TRUE, tenths |-> 0 - 10]
  ELSE IF text = "1.9" THEN [finite |-> TRUE, tenths |-> 19]
  ELSE [finite |-> TRUE,
        tenths |-> 10 * (CHOOSE i \in ReplayIndexes : ToString(i) = text)]

\* Math.trunc of a number given in tenths
Trunc(tenths) ==
  IF tenths >= 0 THEN tenths \div 10 ELSE 0 - ((0 - tenths) \div 10)

\* ReplayBox.tsx:34: Math.max(0, Math.min(latestStateIndex, Math.trunc(parsed)))
ClampIndex(parsed, latest) ==
  LET t == Trunc(parsed)
      m == IF latest < t THEN latest ELSE t
  IN IF m < 0 THEN 0 ELSE m

\* ReplayBox.tsx:24-37
commitInput ==
  IF inputValue \in {"", " "} \/ ~NumberOf(inputValue).finite
  THEN /\ inputValue' = ToString(stateIndex)
       /\ UNCHANGED <<stateIndex, latestStateIndex, replayFetches, replayStore,
                      replayLatest>>
       /\ replayFrame
  ELSE /\ inputValue' =
            ToString(ClampIndex(NumberOf(inputValue).tenths, latestStateIndex))
       /\ setStateIndex(ClampIndex(NumberOf(inputValue).tenths, latestStateIndex))
       /\ UNCHANGED <<latestStateIndex, replayStore, replayLatest>>
       /\ replayFrame

\* ReplayScreen.tsx:40-42 and 52-53: the getState of slot k resolves and its
\* snapshot is dispatched; the answer to "latest" also sets latestStateIndex.
ReplayFetchArrive(k) ==
  /\ replayFetches[k] # "free"
  /\ replayFetches' = [replayFetches EXCEPT ![k] = "free"]
  /\ IF replayFetches[k] = "latest"
     THEN /\ replayStore' = replayLatest
          /\ latestStateIndex' = replayLatest
     ELSE /\ replayStore' =
               (CHOOSE i \in ReplayIndexes : ToString(i) = replayFetches[k])
          /\ latestStateIndex' = latestStateIndex
  /\ UNCHANGED <<stateIndex, inputValue, replayLatest>>
  /\ replayFrame

ReplayScreenNext ==
  \/ handlePrevState
  \/ handleNextState
  \/ \E value \in ReplayIndexes : onSeekMove(value)
  \/ \E text \in InputTexts : setInputValue(text)
  \/ commitInput
  \/ \E k \in 1..MaxReplayFetches : ReplayFetchArrive(k)

SpecReplayScreen == ReplayScreenInit /\ [][ReplayScreenNext]_vars

\* ------------------------------------------------------------ localRecords
\* localRecords.ts:9-32, for an entry persist wrote: game_id is a string and
\* updated_at_ms a number, so ms is entry.updated_at_ms, and updated_at, a
\* string, is kept (the ISO text of an instant is modelled by the instant).
normalizeRecord(entry) ==
  IF entry.game_id \notin RecordGames
  THEN <<>>
  ELSE <<[game_id |-> entry.game_id,
          updated_at |-> entry.updated_at,
          updated_at_ms |-> entry.updated_at_ms]>>

\* parsed.map(normalizeRecord).filter(Boolean), localRecords.ts:41-43
RECURSIVE normalizeAll(_)
normalizeAll(parsed) ==
  IF parsed = <<>> THEN <<>>
  ELSE normalizeRecord(Head(parsed)) \o normalizeAll(Tail(parsed))

\* localRecords.ts:34-50
safeParse(item) ==
  IF ~item.present THEN <<>> ELSE normalizeAll(item.value)

\* localRecords.ts:52-57
getLocalRecords == safeParse(storedRecords)

\* localRecords.ts:59-64: the item written is the JSON text of the list.
persist(records) == [present |-> TRUE, value |-> records]

\* records.filter((record) => record.game_id !== gameId), lines 74 and 101
withoutGame(records, g) ==
  SelectSeq(records, LAMBDA rec : rec.game_id # g)

\* One step of the stable sort of line 92: entry goes behind every record
\* that is not older than it.
insertByTime(sorted, entry) ==
  LET n == Cardinality({i \in DOMAIN sorted :
                          sorted[i].updated_at_ms >= entry.updated_at_ms})
  IN SubSeq(sorted, 1, n) \o <<entry>> \o SubSeq(sorted, n + 1, Len(sorted))

\* .sort((a, b) => b.updated_at_ms - a.updated_at_ms), line 92
RECURSIVE sortByTimeDesc(_)
sortByTimeDesc(records) ==
  IF records = <<>> THEN <<>>
  ELSE insertByTime(sortByTimeDesc(SubSeq(records, 1, Len(records) - 1)),
                    records[Len(records)])

\* The stored list after upsertLocalRecord forgot to drop the game's own
\* record.
upsertKeepsCurrent(g, timestamp) ==
  LET current == getLocalRecords
      nextRecord == [game_id |-> g, updated_at |-> timestamp,
                     updated_at_ms |-> timestamp]
      sorted == sortByTimeDesc(<<nextRecord>> \o current)
  IN persist(SubSeq(sorted, 1,
                    IF Len(sorted) < MAX_RECORDS THEN Len(sorted)
                    ELSE MAX_RECORDS))

\* localRecords.ts:73-94: the item upsertLocalRecord(g, ...) stores when
\* Date.now() returns timestamp.
upsertStores(g, timestamp) ==
  LET current == getLocalRecords
      withoutCurrent == withoutGame(current, g)
      nextRecord == [game_id |-> g, updated_at |-> timestamp,
                     updated_at_ms |-> timestamp]
      sorted == sortByTimeDesc(<<nextRecord>> \o withoutCurrent)
  IN persist(SubSeq(sorted, 1,
                    IF Len(sorted) < MAX_RECORDS THEN Len(sorted)
                    ELSE MAX_RECORDS))

recordsFrame == UNCHANGED <<gsVars, pvpVars, rollVars, tradeVars, statsVars,
                            replayVars>>

\* localRecords.ts:66-95
upsertLocalRecord(g, timestamp) ==
  /\ storedRecords' = upsertStores(g, timestamp)
  /\ lastOperation' = [lastOperation EXCEPT ![g] = "upsert"]
  /\ recordsFrame

\* localRecords.ts:97-105
removeLocalRecord(g) ==
  /\ storedRecords' = persist(withoutGame(getLocalRecords, g))
  /\ lastOperation' = [lastOperation EXCEPT ![g] = "remove"]
  /\ recordsFrame

\* The browser has no stored records and no page of the app is followed.
RecordsInit ==
  /\ gameId = "none"
  /\ unmounted = FALSE
  /\ replayMode = FALSE
  /\ storeState = NoState
  /\ latestGameStateRef = NoState
  /\ botProcessingRef = FALSE
  /\ pendingBotCheckRef = FALSE
  /\ botProcessingCancelledRef = FALSE
  /\ botDelayTimeoutRef = 0
  /\ isBotThinking = FALSE
  /\ loops = [i \in 1..MaxLoops |-> FreeLoop]
  /\ fetches = [g \in Games |-> 0]
  /\ humanPosts = [x \in Paths \X Games |-> 0]
  /\ pendingAction = "null"
  /\ snackbar = "none"
  /\ enqueued = 0
  /\ pvpSrv = NoState
  /\ pvpPolls = [k \in 1..MaxPolls |-> FreePoll]
  /\ pvpSubmits = [k \in 1..MaxSubmits |-> FreeSubmit]
  /\ SessionInit
  /\ RollIdle
  /\ TradeIdle
  /\ StatsIdle
  /\ ReplayIdle
  /\ RecordsIdle

RecordsNext ==
  \/ \E g \in RecordGames, timestamp \in 1..MaxClock :
       upsertLocalRecord(g, timestamp)
  \/ \E g \in RecordGames : removeLocalRecord(g)

SpecRecords == RecordsInit /\ [][RecordsNext]_vars

SpecStats == StatsInit /\ [][StatsNext]_vars

SpecAdvice == StatsInit /\ [][AdviceNext]_vars

\* ================================================================ claims
\* C1: at most one automated submission (postAction without payload) is
\* outstanding at any time for a game, whatever the interleaving of snapshot
\* arrivals, loop completions and game-id changes.
C1_SingleFlightPerGame ==
  \A g \in Games :
    Cardinality({i \in DOMAIN loops :
                   loops[i].pc = "post" /\ loops[i].gameId = g}) <= 1

\* C2: after a game-id change or an unmount, a drive loop started before it
\* has no effect: the response of its submission is not written to the store
\* and it issues no further submission.
C2_StaleLoopHasNoEffect ==
  [][\A i \in DOMAIN loops, sh \in ShapeNames :
       (loops[i].stale /\ BotPostOk(i, sh))
         => (storeState' = storeState /\ loops'[i].pc # "post")]_vars

\* C3: when an automated submission fails, its drive loop ends and the
\* failure starts no drive loop and issues no submission.
C3_FailureStartsNothing ==
  [][\A i \in DOMAIN loops :
       BotPostFail(i) => \A j \in DOMAIN loops : ~LoopLive(loops'[j])
                                                 \/ (j # i /\ loops'[j] = loops[j])]_vars

\* C4: a drive loop that was inside its pacing delay when GameScreen was
\* torn down (unmount or game-id change) never issues the submission that
\* follows the delay.
C4_TornDownWaitNeverSubmits ==
  [][\A i \in DOMAIN loops :
       (loops[i].tornInWait /\ TimerFire(i)) => loops'[i].pc # "post"]_vars

\* C5: a snapshot that arrives while a drive loop of the mounted session (one
\* no teardown has abandoned) is running starts no second drive loop.
C5_ReentrantTriggerStartsNothing ==
  [][\A g \in Games, sh \in ShapeNames :
       (/\ FetchArrive(g, sh)
        /\ \E j \in DOMAIN loops : LoopLive(loops[j]) /\ ~loops[j].stale)
         => \A j \in DOMAIN loops : LoopLive(loops'[j]) => LoopLive(loops[j])]_vars

\* C6: when the network call of a submission fails, the store's snapshot is
\* left unchanged and the control that submitted takes its failure branch
\* (toolbar and trade panel show the error notification).
C6_FailureLeavesSnapshotAndIsObserved ==
  [][\A k \in DOMAIN pvpSubmits :
       PvpSubmitFail(k)
         => /\ storeState' = storeState
            /\ pvpSubmits[k].path # "board" => snackbar' = "error"]_vars

\* C7: in a PvP room the store never replaces its snapshot with one of the
\* same game whose state_index is lower.
C7_StoreIndexNeverDecreases ==
  [][(/\ storeState # NoState /\ storeState' # NoState
      /\ storeState'.game = storeState.game)
       => storeState'.state_index >= storeState.state_index]_vars

\* C8: while a submission, of a human control or of the bot runner, is
\* outstanding, no control that could submit an action is enabled.
C8_ControlsDisabledWhileOutstanding ==
  (OutstandingHuman > 0 \/ OutstandingBot # {})
    => \A path \in Paths : ~ControlEnabled(path)

\* C9: while a roll is Revealing, the arrival of a later snapshot of the same
\* game (its action_records extend the held ones) changes neither the overlay
\* roll nor the settled roll.
C9_SnapshotsNeverPreemptReveal ==
  [][(/\ overlayVisible
      /\ gameState' # gameState
      /\ Len(gameState'.action_records) >= Len(gameState.action_records)
      /\ SubSeq(gameState'.action_records, 1, Len(gameState.action_records))
           = gameState.action_records)
       => UNCHANGED <<overlayRoll, overlayKey, displayRoll, displayRollKey>>]_vars

\* C10: a snapshot that arrives (gameState changes) and whose latest roll
\* identity differs from the settled and the revealing roll enters Revealing
\* with that roll when its roller is the snapshot's current_color (the
\* settled roll stays), and otherwise makes it the settled roll with no
\* overlay.
C10_NewRollRevealsOrSettles ==
  [][LET latest == extractLatestRoll(gameState')
     IN (/\ gameState' # gameState
         /\ latest.key # NoKey
         /\ latest.key # displayRollKey
         /\ latest.key # overlayKey)
          => IF latest.roller = gameState'.current_color
             THEN /\ overlayRoll' = latest.roll
                  /\ overlayKey' = latest.key
                  /\ UNCHANGED <<displayRoll, displayRollKey>>
             ELSE /\ displayRoll' = latest.roll
                  /\ displayRollKey' = latest.key
                  /\ overlayRoll' = NoRoll
                  /\ overlayKey' = NoKey]_vars

\* A roll is Revealing over a different settled roll: a snapshot brought a
\* new roll whose roller is its current_color.
C10_Witness ==
  /\ overlayVisible
  /\ displayRollKey # NoKey
  /\ displayRollKey # overlayKey
  /\ overlayKey = extractLatestRoll(gameState).key
  /\ extractLatestRoll(gameState).roller = gameState.current_color


\* C11: a roll that arrives as the latest roll with its roller as the current
\* actor, and whose die values equal those of the settled or the revealing
\* roll while its position in action_records differs from theirs, starts a
\* reveal of its own (a new overlay identity).
C11_SameValuesNewPositionReveals ==
  [][LET recs == gameState'.action_records
         rolls == {i \in DOMAIN recs : recs[i][1][2] = "ROLL"}
         last == CHOOSE i \in rolls : \A j \in rolls : j <= i
         sameValues(k, r) == k # NoKey /\ r = recs[last][2]
         samePlace(k) == k # NoKey /\ k[3] = last - 1
     IN (/\ gameState' # gameState
         /\ rolls # {}
         /\ recs[last][1][1] = gameState'.current_color
         /\ \/ sameValues(displayRollKey, displayRoll)
            \/ sameValues(overlayKey, overlayRoll)
         /\ ~(sameValues(displayRollKey, displayRoll)
                /\ samePlace(displayRollKey))
         /\ ~(sameValues(overlayKey, overlayRoll) /\ samePlace(overlayKey)))
          => /\ overlayRoll' = recs[last][2]
             /\ overlayKey' # NoKey
             /\ overlayKey' \notin {displayRollKey, overlayKey}]_vars

\* A roll is revealed whose die values equal the settled roll's, at another
\* position of action_records.
C11_Witness ==
  /\ overlayVisible
  /\ displayRoll = overlayRoll
  /\ displayRollKey # NoKey
  /\ displayRollKey # overlayKey
  /\ extractLatestRoll(gameState).roller = gameState.current_color


\* C12: a handler that feeds one snapshot into the store, once or twice,
\* raises at most the one notification a single feed raises.
C12_RefeedAddsNoNotification ==
  enqueued <= 1

\* C13: the trade panel enables proposing, and a proposal is submitted, only
\* if the viewer is the current actor at PLAY_TURN, has rolled, the snapshot
\* has no winner, and either no trade is active or the viewer is the offerer
\* of the active one.
C13_ProposeOnlyWhenEligible ==
  (ProposeButton # {} \/ tradeSubmitted[2] = "OFFER_TRADE") =>
    /\ tradeGameState.current_color = humanColor
    /\ tradeGameState.current_prompt = "PLAY_TURN"
    /\ tradeGameState.has_rolled
    /\ tradeGameState.winning_color = "NONE"
    /\ \/ tradeGameState.trade = NoTrade
       \/ tradeGameState.trade.offerer_color = humanColor

\* a proposal is in flight while the viewer's own trade is active
C13_Witness ==
  /\ tradeSubmitted[2] = "OFFER_TRADE"
  /\ tradeGameState.trade # NoTrade

\* C14: a viewer who is not the offerer of the active trade can submit
\* ACCEPT_TRADE or REJECT_TRADE only while the snapshot's acceptee entry for
\* the viewer has responded = false; once a snapshot shows responded = true
\* for the viewer no response button submits anything.
C14_RespondOnlyWhileNotResponded ==
  (/\ tradeGameState.trade # NoTrade
   /\ \/ \E a \in EnabledTradeActions : a[2] \in {"ACCEPT_TRADE", "REJECT_TRADE"}
      \/ tradeSubmitted[2] \in {"ACCEPT_TRADE", "REJECT_TRADE"}) =>
    /\ tradeGameState.trade.offerer_color # humanColor
    /\ \E e \in tradeGameState.trade.acceptees :
         e.color = humanColor /\ ~e.responded

\* a response is in flight after another seat has already answered
C14_Witness ==
  /\ tradeSubmitted[2] = "ACCEPT_TRADE"
  /\ \E e \in tradeGameState.trade.acceptees : e.responded

\* C15: for the viewer who offered the active trade, the must-cancel
\* condition holds exactly when every non-offering seat has responded and
\* none has accepted; while it holds no CONFIRM_TRADE can be submitted for
\* the trade: the only action on it the panel submits is CANCEL_TRADE.
C15_MustCancelForcesWithdraw ==
  LET t == tradeGameState.trade
      allRejected == \A e \in t.acceptees : e.responded /\ ~e.accepted
      onTrade == {a \in EnabledTradeActions : a[2] # "OFFER_TRADE"}
  IN (t # NoTrade /\ t.offerer_color = humanColor) =>
       /\ mustCancelDueToRejections <=> allRejected
       /\ allRejected =>
            /\ onTrade \subseteq {<<humanColor, "CANCEL_TRADE", "NONE">>}
            /\ pendingAction = "null" => onTrade # {}
            /\ tradeSubmitted[2] \notin {"CONFIRM_TRADE", "ACCEPT_TRADE",
                                         "REJECT_TRADE"}

\* the offerer withdraws a trade every seat rejected, although the snapshot
\* lists a confirmation
C15_Witness ==
  /\ mustCancelDueToRejections
  /\ decidingPartner
  /\ confirmActions # {}
  /\ Cardinality(rejectedColors) = 3
  /\ tradeSubmitted[2] = "CANCEL_TRADE"

\* C16: a confirm button is enabled, and a CONFIRM_TRADE is submitted, only
\* for the viewer who offered the active trade and only for a target seat
\* whose acceptee entry has accepted = true.
C16_ConfirmOnlyOffererAndAccepted ==
  \A a \in EnabledTradeActions \cup {tradeSubmitted} :
    a[2] = "CONFIRM_TRADE" =>
      /\ tradeGameState.trade.offerer_color = humanColor
      /\ \E e \in tradeGameState.trade.acceptees : e.color = a[3] /\ e.accepted

\* C17: a new proposal is never submitted while an offered amount exceeds
\* the viewer's holdings, while offer and request overlap on a resource
\* kind, or while the offer or the request is empty; in each of these cases
\* the propose button is disabled and the panel shows the message of a rule
\* that is violated.
C17_InvalidProposalNeverSubmitted ==
  [][LET exceeds == \E k \in Resources : offer[k] > holdings[k]
         overlap == \E k \in Resources : offer[k] > 0 /\ request[k] > 0
         noOffer == \A k \in Resources : offer[k] = 0
         noRequest == \A k \in Resources : request[k] = 0
     IN /\ (exceeds \/ overlap \/ noOffer \/ noRequest) =>
             /\ ProposeButton = {}
             /\ ~(tradeSubmitted = NoAction /\ tradeSubmitted'[2] = "OFFER_TRADE")
             /\ \/ validationError = "insufficient" /\ exceeds
                \/ validationError = "overlap" /\ overlap
                \/ validationError = "emptyOffer" /\ noOffer
                \/ validationError = "emptyRequest" /\ noRequest
        /\ (tradeSubmitted = NoAction /\ tradeSubmitted'[2] = "OFFER_TRADE") =>
             tradeSubmitted'[3] = <<offer, request>>]_vars

\* a proposal is submitted right after the form stopped overlapping, and
\* the form is changed back into an overlapping one while it is in flight
C17_Witness ==
  /\ tradeSubmitted[2] = "OFFER_TRADE"
  /\ validationError = "overlap"

\* C18: when the server answers a PvP submission with 409, the client calls
\* fetchStatus, which fetches the room status and then the game state, and
\* it submits nothing on its own: a request is sent only by an enabled
\* control, never by the step that handles the 409 or by the re-fetch.
C18_ConflictRefetchesAndNeverResubmits ==
  [][/\ \A k \in 1..MaxSubmits :
          (pvpSubmits[k].phase = "conflict" /\ pvpSubmits'[k] # pvpSubmits[k]) =>
            /\ pvpSubmits'[k].phase = "free"
            /\ \E p \in 1..MaxPolls :
                 /\ pvpPolls[p].phase = "free"
                 /\ pvpPolls'[p].phase = "status"
                 /\ pvpPolls'[p].after = pvpSubmits[k].closure
     /\ \A p \in 1..MaxPolls :
          (pvpPolls[p].after # NoState /\ PvpStatusOk(p)) =>
            pvpPolls'[p].phase = "state"
     /\ \A k \in 1..MaxSubmits :
          (pvpSubmits'[k].phase = "sent" /\ pvpSubmits[k].phase # "sent") =>
            /\ pvpSubmits[k].phase = "free"
            /\ PvpControlEnabled(pvpSubmits'[k].path)
            /\ pvpPolls' = pvpPolls]_vars

\* the re-fetch that follows a 409 has read the room status and the game
\* state, and no submission is outstanding
C18_Witness ==
  /\ \E p \in 1..MaxPolls :
       pvpPolls[p].phase = "reply" /\ pvpPolls[p].after # NoState
  /\ \A k \in 1..MaxSubmits : pvpSubmits[k].phase = "free"

\* C19: on a 401 answer to a request of the status poll the client clears
\* its token and its seat and opens the join dialog, and from then on it
\* issues no request that carries the rejected token: no fetchStatus call
\* starts a request with it and no action is submitted with it.
C19_RejectedTokenNeverReused ==
  [][/\ (pvpToken = "tok" /\ pvpToken' = "none") =>
          pvpSeatColor' = "none" /\ joinDialogOpen'
     /\ pvpToken = "none" =>
          /\ \A p \in 1..MaxPolls :
               (/\ pvpPolls'[p].phase \in {"status", "state"}
                /\ pvpPolls'[p].token = "tok") =>
                 /\ pvpPolls[p].phase = pvpPolls'[p].phase
                 /\ pvpPolls[p].token = "tok"
          /\ \A k \in 1..MaxSubmits :
               pvpSubmits'[k].phase = "sent" => pvpSubmits[k].phase = "sent"]_vars

\* C20: the bot runner issues an automated submission only from a snapshot
\* with no winning_color in which current_color is in bot_colors or the
\* prompt is DECIDE_TRADE with a bot acceptee that has not responded; after
\* each response the loop goes on to the next submission exactly when the
\* returned snapshot satisfies this and the loop's session has not been
\* cancelled (by a game switch or by the unmount).
C20_DrivesExactlyWhileBotTurn ==
  [][LET eligible(s) ==
           /\ s # NoState
           /\ Fields(s).winning_color = "NONE"
           /\ \/ Fields(s).current_color \in Fields(s).bot_colors
              \/ /\ Fields(s).current_prompt = "DECIDE_TRADE"
                 /\ \E a \in Fields(s).acceptees :
                      a.color \in Fields(s).bot_colors /\ ~a.responded
     IN /\ \A j \in 1..MaxLoops :
             (loops[j].pc = "free" /\ loops'[j].pc # "free") =>
               eligible(latestGameStateRef')
        /\ \A i \in 1..MaxLoops, sh \in ShapeNames :
             BotPostOk(i, sh) =>
               (loops'[i].pc \in {"wait", "post"}
                  <=> (eligible(Snap(loops[i].gameId, 0, sh))
                       /\ ~loops[i].stale))]_vars

\* C21: before an automated submission the runner waits the pacing delay
\* (4000 ms) exactly when a human is seated, the snapshot is not in the
\* initial build phase and its prompt is PLAY_TURN or MOVE_ROBBER: a loop
\* that heads for a submission from snapshot s is put on the 4000 ms timer
\* if s satisfies the three conditions and requests at once otherwise, and
\* the only way from the timer to the request is the timer firing.
C21_PacingDelayExactlyWhenHumanPaced ==
  [][LET s == latestGameStateRef'
         paced ==
           /\ \E k \in DOMAIN Fields(s).colors :
                Fields(s).colors[k] \notin Fields(s).bot_colors
           /\ ~Fields(s).is_initial_build_phase
           /\ Fields(s).current_prompt \in {"PLAY_TURN", "MOVE_ROBBER"}
         heads(i) ==
           \/ loops[i].pc = "free" /\ loops'[i].pc # "free"
           \/ /\ loops[i].pc = "post" /\ loops'[i].pc # "free"
              /\ \E sh \in PacingShapeNames : BotPostOk(i, sh)
     IN \A i \in 1..MaxLoops :
          /\ heads(i) =>
               /\ s # NoState
               /\ paced <=> (loops'[i].pc = "wait"
                             /\ loops'[i].ms = HUMAN_BOT_DELAY_MS)
               /\ ~paced <=> loops'[i].pc = "post"
          /\ (loops[i].pc = "wait" /\ loops'[i].pc = "post") => TimerFire(i)]_vars

\* C22: automated submissions for forced rolls (PLAY_TURN before the seat has
\* rolled), discards and trade responses are issued immediately: a loop that
\* heads for a submission from such a snapshot requests at once and is never
\* put on the pacing timer.
C22_ForcedSubmissionsAreImmediate ==
  [][LET s == latestGameStateRef'
         forced ==
           \/ Fields(s).current_prompt = "PLAY_TURN" /\ ~Fields(s).has_rolled
           \/ Fields(s).current_prompt = "DISCARD"
           \/ Fields(s).current_prompt = "DECIDE_TRADE"
     IN \A i \in 1..MaxLoops :
          (/\ \/ loops[i].pc = "free" /\ loops'[i].pc # "free"
              \/ /\ loops[i].pc = "post" /\ loops'[i].pc # "free"
                 /\ \E sh \in PacingShapeNames : BotPostOk(i, sh)
           /\ s # NoState /\ forced)
            => loops'[i].pc = "post"]_vars

\* C23: each successful action submission performs one network round trip,
\* replaces the store's snapshot with the response and emits exactly one
\* notification describing the newest action record of that response: the
\* step in which the response of a human control's request, or of a request
\* of the bot runner whose session is not cancelled, is handled takes one
\* request off the outstanding ones, leaves the response in the store and
\* enqueues one "record" notification.
C23_SubmissionReplacesAndNotifiesOnce ==
  [][/\ \A path \in Paths, g \in Games, sh \in ShapeNames :
          HumanPostOk(path, g, sh) =>
            /\ humanPosts'[<<path, g>>] = humanPosts[<<path, g>>] - 1
            /\ storeState' = Snap(g, 0, sh)
            /\ enqueued' = enqueued + 1 /\ snackbar' = "record"
     /\ \A i \in 1..MaxLoops, sh \in ShapeNames :
          (BotPostOk(i, sh) /\ ~botProcessingCancelledRef) =>
            /\ storeState' = Snap(loops[i].gameId, 0, sh)
            /\ enqueued' = enqueued + 1 /\ snackbar' = "record"]_vars

C26_AdviceFollowUps ==
  (~detailLoading /\ recordState # NoRecord) =>
    LET recs == recordState.action_records
        n == Len(recs)
        by(P, i, t) == recs[i + 1][1][1] = P /\ recs[i + 1][1][2] = t
        humans == {k \in 1..Len(recordState.colors) :
                     recordState.colors[k] \notin recordState.bot_colors}
        attributed(P) ==
          {m \in 1..Len(gameEvents) :
             /\ gameEvents[m].event_type = "NEGOTIATION_ADVICE_REQUEST"
             /\ IF gameEvents[m].requester_color # "none"
                THEN gameEvents[m].requester_color = P
                ELSE humans = {k \in humans : recordState.colors[k] = P}
                     /\ humans # {}}
        led(P, m) ==
          /\ gameEvents[m].has_index
          /\ \E i \in 0..(n - 1) :
               /\ i >= gameEvents[m].state_index
               /\ by(P, i, "OFFER_TRADE")
               /\ ~\E j \in 0..(i - 1) :
                     j >= gameEvents[m].state_index /\ by(P, j, "END_TURN")
    IN \A k \in 1..Len(negotiationStats) :
         LET P == recordState.colors[k]
             stats == negotiationStats[k]
         IN /\ stats.adviceRequestCount = Cardinality(attributed(P))
            /\ stats.adviceLedToOfferCount =
                 Cardinality({m \in attributed(P) : led(P, m)})
            /\ stats.adviceLedToOfferCount <= stats.adviceRequestCount

\* C26 witness: a request that names no seat, made at index 0 in a game
\* whose only human is RED, is counted for RED and has led to RED's offer at
\* index 1, before RED's END_TURN at index 2.
C26_Witness ==
  /\ ~detailLoading
  /\ recordState.action_records =
       <<record("BLUE", "OFFER_TRADE"), record("RED", "OFFER_TRADE"),
         record("RED", "END_TURN")>>
  /\ recordState.bot_colors = {"BLUE", "WHITE"}
  /\ gameEvents = <<GameEvent(NEGOTIATION_ADVICE_EVENT, TRUE, 0, "none")>>
  /\ negotiationStats[1].adviceRequestCount = 1
  /\ negotiationStats[1].adviceLedToOfferCount = 1

\* C27: in every trade view the panel derives from a snapshot, each acceptee
\* entry with responded = false has accepted = false, the entries the panel
\* synthesizes for seats missing from the snapshot's acceptee list or
\* lacking a responded field included: no seat is listed as accepted and as
\* waiting at once.
C27_ViewNeverAcceptedWithoutResponse ==
  tradeActive =>
    /\ \A e \in displayAcceptees : ~e.responded => ~e.accepted
    /\ acceptedColors \cap waitingColors = {}

\* C28 (the GameScreen part: a state fetch in flight when GameScreen switches
\* to another game id or is torn down): the continuation of a getState that
\* was started for a game that is no longer shown, or by a GameScreen that
\* has unmounted, writes no snapshot into the store.
C28_LeftSessionFetchWritesNothing ==
  [][\A g \in Games, sh \in ShapeNames :
       (FetchArrive(g, sh) /\ (g # gameId \/ unmounted)) =>
         storeState' = storeState]_vars

\* C29: whenever the store holds no snapshot, the roll sequencer is Idle: no
\* settled roll (value and identity) and no overlay (value and identity),
\* in every reachable state, so whatever the sequencer showed before the
\* snapshot went away.
C29_NoSnapshotMeansIdle ==
  gameState = NullGame =>
    /\ displayRoll = NoRoll
    /\ displayRollKey = NoKey
    /\ overlayRoll = NoRoll
    /\ overlayKey = NoKey
    /\ ~overlayVisible

\* The store has been emptied and the sequencer is idle.
C29_Witness ==
  /\ gameState = NullGame
  /\ displayRollKey = NoKey
  /\ overlayKey = NoKey
  /\ ~ENABLED finalizeOverlay

\* C30 (the pacing timer): after a teardown of GameScreen (unmount or game-id
\* change) the callback of a pacing timer that was pending at that teardown
\* never runs: no drive loop that was inside its pacing delay when the
\* teardown happened has its timer fire.
C30_NoPacingCallbackAfterTeardown ==
  [][\A i \in DOMAIN loops : TimerFire(i) => ~loops[i].tornInWait]_vars

\* C31: in every reachable state of the roll sequencer the overlay's roll and
\* the overlay's key are both set or both absent, and a set overlay key
\* differs from the settled roll's key: no roll is revealing and settled at
\* once.
C31_OverlayPairedAndNotSettled ==
  /\ (overlayRoll = NoRoll) <=> (overlayKey = NoKey)
  /\ overlayKey # NoKey => overlayKey # displayRollKey

\* A reveal is in flight over an earlier settled roll of the same die values.
C31_Witness ==
  /\ overlayKey # NoKey
  /\ overlayRoll # NoRoll
  /\ displayRollKey # NoKey
  /\ displayRoll = overlayRoll

C33_ThinkingOnlyWhileLoopRuns ==
  (~unmounted /\ isBotThinking) =>
    \E i \in DOMAIN loops :
      loops[i].pc # "free" /\ loops[i].gameId = gameId /\ ~loops[i].stale

\* C34: a viewer of a PvP room who holds a token and no seat never causes an
\* action submission request, and an attempt of theirs leaves the store's
\* snapshot as it is: in no step taken while the page has a token and no
\* seat does a submitAction call become outstanding, and a spectator's click
\* changes neither the store nor the requests in flight.
C34_SpectatorNeverSubmits ==
  [][(pvpToken # "none" /\ pvpSeatColor = "none") =>
       /\ \A k \in DOMAIN pvpSubmits :
            pvpSubmits'[k].phase = "sent" => pvpSubmits[k].phase = "sent"
       /\ (\A p \in DOMAIN pvpPolls : pvpPolls'[p] = pvpPolls[p]) =>
            storeState' = storeState]_vars

\* A spectator looks at the started game's board with nothing in flight.
C34_Witness ==
  /\ pvpToken = "spec" /\ pvpSeatColor = "none"
  /\ storeState # NoState
  /\ ENABLED (\E k \in 1..MaxSubmits : PvpSpectatorClick(k))

C36_FormCountsWithinHoldings ==
  \A k \in Resources :
    /\ 0 <= offer[k]
    /\ offer[k] <= holdings[k]
    /\ 0 <= request[k]

\* The hand shrank below what the form offered and the offer was cut down to
\* it, with a request still in the form.
C36_Witness ==
  \E k \in Resources :
    /\ offer[k] > 0
    /\ offer[k] = holdings[k]
    /\ holdings[k] < MaxCount
    /\ \E j \in Resources : request[j] > 0

\* C37: the trade panel's pending marker is set exactly while one of its
\* submissions is outstanding; a submission that completes clears it; the
\* proposal form is emptied by a completed submission only if that was an
\* OFFER_TRADE the server accepted, and a submission that failed (the
\* executor rejected, or the request behind it failed) leaves the form as
\* it was.
C37_PendingAndFormFollowSubmission ==
  [][/\ (pendingAction' # "null") <=> (tradeSubmitted' # NoAction)
     /\ (tradeSubmitted # NoAction /\ tradeSubmitted' = NoAction) =>
          IF TradeSubmitOk /\ tradeSubmitted[2] = "OFFER_TRADE"
          THEN offer' = createEmptyCounts /\ request' = createEmptyCounts
          ELSE offer' = offer /\ request' = request]_vars

\* C38: in ReplayScreen the selected state index stays between 0 and the
\* latest state index, and once no getState is pending the snapshot in the
\* store is the one of the selected state index, in whatever order the
\* responses arrived.
C38_IndexInRangeAndStoreFollowsIt ==
  /\ 0 <= stateIndex
  /\ stateIndex <= latestStateIndex
  /\ (\A k \in DOMAIN replayFetches : replayFetches[k] = "free")
       => replayStore = stateIndex

\* C39: after any sequence of upsertLocalRecord and removeLocalRecord calls
\* the stored list has at most one record per game id and at most
\* MAX_RECORDS records, is ordered by update time descending, and holds no
\* record of a game id whose last call was a removal.
C39_StoredRecordsWellFormed ==
  LET list == storedRecords.value IN
  /\ \A i, j \in DOMAIN list : list[i].game_id = list[j].game_id => i = j
  /\ Len(list) <= MAX_RECORDS
  /\ \A i, j \in DOMAIN list :
       i < j => list[i].updated_at_ms >= list[j].updated_at_ms
  /\ \A g \in RecordGames :
       lastOperation[g] = "remove" =>
         \A i \in DOMAIN list : list[i].game_id # g

\* A full list after an overflow and a removal: one game's record was
\* removed, another game was upserted and has dropped off the end.
C39_Witness ==
  /\ Len(storedRecords.value) = MAX_RECORDS
  /\ storedRecords.value[1].updated_at_ms
       > storedRecords.value[MAX_RECORDS].updated_at_ms
  /\ \E g \in RecordGames : lastOperation[g] = "remove"
  /\ \E g \in RecordGames :
       /\ lastOperation[g] = "upsert"
       /\ \A i \in DOMAIN storedRecords.value : storedRecords.value[i].game_id # g

====
